---- MODULE Spec2Model ----
(***************************************************************************)
(* Electrical Load Dashboard (src/dist/main.js): input validation, the     *)
(* power/cost calculation, the theme toggle and the calculation history    *)
(* kept in localStorage.                                                   *)
(*                                                                         *)
(* Numbers.  A JavaScript number is a binary64 floating-point number,      *)
(* modelled as a record [k, neg, m, e]:                                    *)
(*     k = "num"   the finite value m * 2^e, negated when neg: m is a      *)
(*                 natural number of any size, odd, of at most 53 bits,    *)
(*                 and e >= -1074; for 0 and -0, m and e are 0             *)
(*     k = "nan"   NaN                                                     *)
(*     k = "inf"   Infinity, or -Infinity when neg                         *)
(* and JSON's null as a record of kind "null".  Every operation gives the  *)
(* number nearest to the exact result, ties to the even significand, as    *)
(* IEEE 754 arithmetic does; a result of 2^1024 or more is an Infinity.    *)
(*                                                                         *)
(* Text.  The value of an input element, and every string a number is      *)
(* formatted to or parsed from, is a sequence of one-character strings.    *)
(***************************************************************************)
EXTENDS Integers, Sequences, FiniteSets, TLC

VARIABLES
    fields,        \* .value of the six input elements, by element id
    resultsDiv,    \* what the results panel shows
    historyList,   \* what the history panel shows
    dataTheme,     \* data-theme attribute of the document element
    themeIcon,     \* text of the .theme-icon element
    localStorage,  \* key -> <<>> (absent) or <<value>>
    clock,         \* the reading Date.now() returns
    op,            \* the handler that ran last and its outcome
    log,           \* the items saved so far, while only saves have run
    call           \* a direct application of validateInputs

vars == <<fields, resultsDiv, historyList, dataTheme, themeIcon,
          localStorage, clock, op, log, call>>

-----------------------------------------------------------------------------
(* Bounds *)

\* the last reading of the clock
MaxClock == 1

\* the longest run of saves the log follows
MaxSaves == 11

-----------------------------------------------------------------------------
(* Natural numbers of any size *)

\* A natural number of any size is the sequence of its digits in base Base,
\* least significant first, without a zero at the top; 0 is << >>.  The
\* operations work on a range lo..hi of digit positions by halving it, which
\* keeps their evaluation shallow.
Base == 32768

BaseBits == 15

Max(i, j) == IF i < j THEN j ELSE i

Min(i, j) == IF i < j THEN i ELSE j

Limb(a, i) == IF i <= Len(a) THEN a[i] ELSE 0

\* the position of the highest digit of a that is not zero; 0 when none is
TopDigit(a) ==
    IF \A i \in 1..Len(a) : a[i] = 0 THEN 0
    ELSE CHOOSE i \in 1..Len(a) :
             a[i] # 0 /\ \A j \in (i + 1)..Len(a) : a[j] = 0

\* a without zero digits at the top
Trim(a) ==
    IF Len(a) = 0 \/ a[Len(a)] # 0 THEN a ELSE SubSeq(a, 1, TopDigit(a))

\* all of s but its last element
Front(s) == SubSeq(s, 1, Len(s) - 1)

Last(s) == s[Len(s)]

\* the digits of a moved up by n positions
ShiftDigits(a, n) == IF a = << >> THEN << >> ELSE [i \in 1..n |-> 0] \o a

PowersOf2 == <<1, 2, 4, 8, 16, 32, 64, 128, 256, 512, 1024, 2048, 4096, 8192,
               16384, 32768>>

\* 2^n, for n in 0..BaseBits
Pow2(n) == PowersOf2[n + 1]

\* the number of bits of a natural below Base
SmallBits(n) == CHOOSE b \in 0..BaseBits : n < Pow2(b) /\ (b = 0 \/ n >= Pow2(b - 1))

\* a natural that is an integer of the model, below 2^31
BigOf(n) == Trim(<<n % Base, (n \div Base) % Base, n \div (Base * Base)>>)

RECURSIVE AddRange(_, _, _, _, _)

\* the digits lo..mid are done and end with their carry: the digits up to hi
AddJoin(a, b, mid, hi, done) ==
    Front(done) \o AddRange(a, b, mid + 1, hi, Last(done))

\* the digits lo..hi of a + b, c carried in; after them, the carry out
AddRange(a, b, lo, hi, c) ==
    IF lo = hi
    THEN <<(Limb(a, lo) + Limb(b, lo) + c) % Base,
           (Limb(a, lo) + Limb(b, lo) + c) \div Base>>
    ELSE AddJoin(a, b, (lo + hi) \div 2, hi,
                 AddRange(a, b, lo, (lo + hi) \div 2, c))

BigAdd(a, b) ==
    IF a = << >> THEN b
    ELSE IF b = << >> THEN a
    ELSE Trim(AddRange(a, b, 1, Max(Len(a), Len(b)), 0))

RECURSIVE SubRange(_, _, _, _, _)

SubJoin(a, b, mid, hi, done) ==
    Front(done) \o SubRange(a, b, mid + 1, hi, Last(done))

\* the digits lo..hi of a - b, c borrowed; after them, the borrow out
SubRange(a, b, lo, hi, c) ==
    IF lo = hi
    THEN <<(a[lo] - Limb(b, lo) - c + Base) % Base,
           IF a[lo] - Limb(b, lo) - c < 0 THEN 1 ELSE 0>>
    ELSE SubJoin(a, b, (lo + hi) \div 2, hi,
                 SubRange(a, b, lo, (lo + hi) \div 2, c))

\* a - b, for a >= b
BigSub(a, b) ==
    IF b = << >> THEN a ELSE Trim(Front(SubRange(a, b, 1, Len(a), 0)))

\* the highest position where a and b, of the same length and different,
\* differ
TopDifference(a, b) ==
    CHOOSE i \in 1..Len(a) :
        a[i] # b[i] /\ \A j \in (i + 1)..Len(a) : a[j] = b[j]

\* -1, 0 or 1 as a < b, a = b or a > b
BigCmp(a, b) ==
    IF Len(a) < Len(b) THEN 0 - 1
    ELSE IF Len(a) > Len(b) THEN 1
    ELSE IF a = b THEN 0
    ELSE IF a[TopDifference(a, b)] < b[TopDifference(a, b)] THEN 0 - 1
    ELSE 1

RECURSIVE MulSmallRange(_, _, _, _, _)

MulSmallJoin(a, k, mid, hi, done) ==
    Front(done) \o MulSmallRange(a, k, mid + 1, hi, Last(done))

\* the digits lo..hi of a * k, c carried in; after them, the carry out
MulSmallRange(a, k, lo, hi, c) ==
    IF lo = hi THEN <<(a[lo] * k + c) % Base, (a[lo] * k + c) \div Base>>
    ELSE MulSmallJoin(a, k, (lo + hi) \div 2, hi,
                      MulSmallRange(a, k, lo, (lo + hi) \div 2, c))

\* a * k + c, for k and c below Base
MulSmall(a, k, c) ==
    IF k = 0 \/ a = << >> THEN BigOf(c)
    ELSE Trim(MulSmallRange(a, k, 1, Len(a), c))

RECURSIVE MulRange(_, _, _, _)

\* a times the digits lo..hi of b
MulRange(a, b, lo, hi) ==
    IF lo = hi THEN MulSmall(a, b[lo], 0)
    ELSE BigAdd(MulRange(a, b, lo, (lo + hi) \div 2),
                ShiftDigits(MulRange(a, b, ((lo + hi) \div 2) + 1, hi),
                            ((lo + hi) \div 2) + 1 - lo))

BigMul(a, b) ==
    IF a = << >> \/ b = << >> THEN << >>
    ELSE IF Len(b) <= Len(a) THEN MulRange(a, b, 1, Len(b))
    ELSE MulRange(b, a, 1, Len(a))

RECURSIVE DivSmallRange(_, _, _, _, _)

\* the digits above mid are done and begin with their remainder
DivSmallJoin(a, k, lo, mid, done) ==
    IF Len(done) = 0 THEN << >>
    ELSE DivSmallRange(a, k, lo, mid, Head(done)) \o Tail(done)

\* the digits lo..hi of a divided by k, the digits above having left the
\* remainder r: the remainder, then the digits of the quotient
DivSmallRange(a, k, lo, hi, r) ==
    IF lo = hi THEN <<(r * Base + a[lo]) % k, (r * Base + a[lo]) \div k>>
    ELSE DivSmallJoin(a, k, lo, (lo + hi) \div 2,
                      DivSmallRange(a, k, ((lo + hi) \div 2) + 1, hi, r))

\* a # 0 divided by k, 0 < k < Base: the remainder, then the digits of the
\* quotient
DivSmall(a, k) == DivSmallRange(a, k, 1, Len(a), 0)

\* the quotient of a by k, 0 < k < Base
DivSmallQ(a, k) == IF a = << >> THEN << >> ELSE Trim(Tail(DivSmall(a, k)))

\* the number of bits of a
BitLen(a) ==
    IF a = << >> THEN 0
    ELSE BaseBits * (Len(a) - 1) + SmallBits(a[Len(a)])

IsOdd(a) == a # << >> /\ a[1] % 2 = 1

\* a * 2^n
Shl(a, n) == ShiftDigits(MulSmall(a, Pow2(n % BaseBits), 0), n \div BaseBits)

\* floor(a / 2^n)
Shr(a, n) ==
    IF n \div BaseBits >= Len(a) THEN << >>
    ELSE DivSmallQ(SubSeq(a, (n \div BaseBits) + 1, Len(a)), Pow2(n % BaseBits))

\* the position of the lowest digit of a # 0 that is not zero
LowDigit(a) ==
    CHOOSE i \in 1..Len(a) : a[i] # 0 /\ \A j \in 1..(i - 1) : a[j] = 0

\* the number of zero bits below the lowest one bit of n # 0, n below Base
SmallLowZeros(n) == CHOOSE z \in 0..(BaseBits - 1) : (n \div Pow2(z)) % 2 = 1 /\ n % Pow2(z) = 0

\* the number of zero bits below the lowest one bit of a # 0
LowZeros(a) == BaseBits * (LowDigit(a) - 1) + SmallLowZeros(a[LowDigit(a)])

\* the digit of the quotient of r by d is q or less, and q - 2 or more
DivBigDigit(d, r, q) ==
    IF BigCmp(MulSmall(d, q, 0), r) <= 0 THEN <<BigSub(r, MulSmall(d, q, 0)), q>>
    ELSE IF BigCmp(MulSmall(d, q - 1, 0), r) <= 0
         THEN <<BigSub(r, MulSmall(d, q - 1, 0)), q - 1>>
    ELSE <<BigSub(r, MulSmall(d, q - 2, 0)), q - 2>>

\* one digit of the long division by d, whose top digit is Base / 2 or more:
\* r, below d * Base, is the remainder with the digit brought down; what is
\* left of it, and the digit of the quotient
DivBigStep(d, r) ==
    IF BigCmp(r, d) < 0 THEN <<r, 0>>
    ELSE DivBigDigit(d, r,
                     Min(Base - 1,
                         (Limb(r, Len(d) + 1) * Base + Limb(r, Len(d)))
                             \div d[Len(d)]))

RECURSIVE DivBigRange(_, _, _, _, _)

\* the digits above mid are done and begin with their remainder
DivBigJoin(n, d, lo, mid, done) ==
    IF Len(done) = 0 THEN << >>
    ELSE DivBigRange(n, d, lo, mid, Head(done)) \o Tail(done)

\* the digits lo..hi of n divided by d, the digits above having left the
\* remainder r: the remainder, then the digits of the quotient
DivBigRange(n, d, lo, hi, r) ==
    IF lo = hi THEN DivBigStep(d, Trim(<<n[lo]>> \o r))
    ELSE DivBigJoin(n, d, lo, (lo + hi) \div 2,
                    DivBigRange(n, d, ((lo + hi) \div 2) + 1, hi, r))

\* the remainder and quotient digits qr of a division whose operands were
\* shifted up by s bits, as <<quotient, remainder>>
QuotientRemainder(qr, s) == <<Trim(Tail(qr)), Shr(Head(qr), s)>>

\* n by d, both shifted up by s bits to make the top digit of d Base / 2 or
\* more
DivBigShifted(n, d, s) ==
    QuotientRemainder(DivBigRange(Shl(n, s), Shl(d, s), 1, Len(Shl(n, s)), << >>),
                      s)

\* the quotient and remainder of n # 0 by the small k
DivSmallBoth(qr) == <<Trim(Tail(qr)), BigOf(Head(qr))>>

\* <<quotient, remainder>> of n by d # 0
BigDivMod(n, d) ==
    IF n = << >> THEN <<<< >>, << >>>>
    ELSE IF Len(d) = 1 THEN DivSmallBoth(DivSmall(n, d[1]))
    ELSE DivBigShifted(n, d, BaseBits - SmallBits(d[Len(d)]))

RECURSIVE SmallNewton(_, _)
\* floor(sqrt(t)) of an integer t by Newton's steps from r, which is not
\* below it
SmallNewton(t, r) ==
    IF (r + t \div r) \div 2 >= r THEN r
    ELSE SmallNewton(t, (r + t \div r) \div 2)

\* the value of a natural below Base * Base as an integer
SmallOf(a) == Limb(a, 1) + Limb(a, 2) * Base

\* floor(sqrt(t)) of an integer 0 < t < Base * Base
SmallSqrt(t) == SmallNewton(t, Pow2((SmallBits(t \div Base) + BaseBits + 1) \div 2))

RECURSIVE SqrtNewton(_, _)

\* r1 is the step after r: the root is reached when the steps stop falling
SqrtNext(n, r, r1) == IF BigCmp(r1, r) >= 0 THEN r ELSE SqrtNewton(n, r1)

\* floor(sqrt(n)) by Newton's steps from r, which is not below it
SqrtNewton(n, r) == SqrtNext(n, r, Shr(BigAdd(r, BigDivMod(n, r)[1]), 1))

\* the root of the top bits of n, those above the lowest s (an even number of)
\* bits, is the first step
SqrtFrom(n, s) ==
    SqrtNewton(n, Shl(BigOf(SmallSqrt(SmallOf(Shr(n, s))) + 1), s \div 2))

\* floor(sqrt(n)), n # 0
BigSqrt(n) ==
    IF BitLen(n) <= 2 * BaseBits THEN BigOf(SmallSqrt(SmallOf(n)))
    ELSE SqrtFrom(n, 2 * ((BitLen(n) - 2 * BaseBits + 1) \div 2))

RECURSIVE BigPow(_, _)

\* the square of a
BigSquare(a) == BigMul(a, a)

\* k^n for a small k
BigPow(k, n) ==
    IF n = 0 THEN <<1>>
    ELSE IF n % 2 = 1 THEN MulSmall(BigPow(k, n - 1), k, 0)
    ELSE BigSquare(BigPow(k, n \div 2))

RECURSIVE IntDigits(_)
\* the decimal digits of a natural number, most significant first
IntDigits(n) == IF n < 10 THEN <<n>> ELSE Append(IntDigits(n \div 10), n % 10)

-----------------------------------------------------------------------------
(* Numbers *)

\* bits of the significand of a binary64 number
Precision == 53

\* the exponent of the lowest bit a binary64 number can have
MinExp == 0 - 1074

\* a finite binary64 number is below 2^MaxExp
MaxExp == 1024

NaN == [k |-> "nan", neg |-> FALSE, m |-> << >>, e |-> 0]

null == [k |-> "null", neg |-> FALSE, m |-> << >>, e |-> 0]

\* Infinity (neg = FALSE) or -Infinity
Inf(neg) == [k |-> "inf", neg |-> neg, m |-> << >>, e |-> 0]

\* 0 or -0
Zero(neg) == [k |-> "num", neg |-> neg, m |-> << >>, e |-> 0]

isNaN(x) == x.k = "nan"

IsInf(x) == x.k = "inf"

\* a finite number
IsFinite(x) == x.k = "num"

IsZero(x) == x.k = "num" /\ x.m = << >>

\* the finite number m * 2^e, m # 0, exactly: the significand made odd
Finite(neg, m, e) ==
    [k |-> "num", neg |-> neg, m |-> Shr(m, LowZeros(m)),
     e |-> e + LowZeros(m)]

\* m * 2^e when it is below 2^MaxExp, else Infinity
Ranged(neg, m, e) ==
    IF m = << >> THEN Zero(neg)
    ELSE IF BitLen(m) + e > MaxExp THEN Inf(neg)
    ELSE Finite(neg, m, e)

\* q2 holds the kept bits and, lowest, the first bit dropped; rest tells
\* whether a lower bit was set: round to nearest, ties to even
RoundBits(q2, rest) ==
    IF IsOdd(q2) /\ (rest \/ IsOdd(Shr(q2, 1)))
    THEN MulSmall(Shr(q2, 1), 1, 1)
    ELSE Shr(q2, 1)

\* m * 2^e with its drop lowest bits rounded away
RoundKept(neg, m, e, sticky, drop, q2) ==
    Ranged(neg, RoundBits(q2, sticky \/ Shl(q2, drop - 1) # m), e + drop)

RoundDrop(neg, m, e, sticky, drop) ==
    IF drop <= 0 THEN Ranged(neg, m, e)
    ELSE IF drop > BitLen(m) + 1 THEN Zero(neg)
    ELSE RoundKept(neg, m, e, sticky, drop, Shr(m, drop - 1))

\* the binary64 number nearest to m * 2^e (plus a little more when sticky)
Round(neg, m, e, sticky) ==
    RoundDrop(neg, m, e, sticky, Max(BitLen(m) - Precision, MinExp - e))

\* the integer n
Num(n) == IF n = 0 THEN Zero(FALSE)
          ELSE Finite(n < 0, BigOf(IF n < 0 THEN 0 - n ELSE n), 0)

\* the number an operand of an arithmetic operator or a comparison is
\* converted to: null becomes 0
ToNumber(x) == IF x.k = "null" THEN Zero(FALSE) ELSE x

\* a * b of two numbers
MulNumbers(a, b) ==
    IF isNaN(a) \/ isNaN(b) THEN NaN
    ELSE IF IsInf(a) \/ IsInf(b)
         THEN (IF IsZero(a) \/ IsZero(b) THEN NaN ELSE Inf(a.neg # b.neg))
    ELSE IF IsZero(a) \/ IsZero(b) THEN Zero(a.neg # b.neg)
    ELSE Round(a.neg # b.neg, BigMul(a.m, b.m), a.e + b.e, FALSE)

Mul(x, y) == MulNumbers(ToNumber(x), ToNumber(y))

\* the quotient and remainder qr of a division, as the number q * 2^e
DivRounded(neg, qr, e) == Round(neg, qr[1], e, qr[2] # << >>)

\* the quotient of the significands of a and b, that of a shifted up by k bits
DivShifted(neg, a, b, k) ==
    DivRounded(neg, BigDivMod(Shl(a.m, k), b.m), a.e - b.e - k)

\* a / b of two numbers
DivNumbers(a, b) ==
    IF isNaN(a) \/ isNaN(b) THEN NaN
    ELSE IF IsInf(a) THEN (IF IsInf(b) THEN NaN ELSE Inf(a.neg # b.neg))
    ELSE IF IsInf(b) THEN Zero(a.neg # b.neg)
    ELSE IF IsZero(b) THEN (IF IsZero(a) THEN NaN ELSE Inf(a.neg # b.neg))
    ELSE IF IsZero(a) THEN Zero(a.neg # b.neg)
    ELSE DivShifted(a.neg # b.neg, a, b,
                    Max(0, Precision + 2 + BitLen(b.m) - BitLen(a.m)))

Div(x, y) == DivNumbers(ToNumber(x), ToNumber(y))

\* -1, 0 or 1 as |a| < |b|, |a| = |b| or |a| > |b|, for finite a and b
CmpMagnitude(a, b) ==
    IF IsZero(a) THEN (IF IsZero(b) THEN 0 ELSE 0 - 1)
    ELSE IF IsZero(b) THEN 1
    ELSE IF BitLen(a.m) + a.e < BitLen(b.m) + b.e THEN 0 - 1
    ELSE IF BitLen(a.m) + a.e > BitLen(b.m) + b.e THEN 1
    ELSE IF a.e >= b.e THEN BigCmp(Shl(a.m, a.e - b.e), b.m)
    ELSE BigCmp(a.m, Shl(b.m, b.e - a.e))

\* ma - mb or mb - ma, the one that is positive, with the sign of the larger;
\* ma + mb when the signs na and nb are the same: a number at the exponent e
AddAligned(na, ma, nb, mb, e, cmp) ==
    IF na # nb /\ cmp = 0 THEN Zero(FALSE)
    ELSE Round(IF na = nb \/ cmp > 0 THEN na ELSE nb,
               IF na = nb THEN BigAdd(ma, mb)
               ELSE IF cmp > 0 THEN BigSub(ma, mb)
               ELSE BigSub(mb, ma),
               e, FALSE)

\* the significands ma and mb, with their signs, added at the exponent e
AddSignificands(na, ma, nb, mb, e) ==
    AddAligned(na, ma, nb, mb, e, BigCmp(ma, mb))

\* a + b of two finite numbers
AddFinite(a, b) ==
    IF IsZero(a) THEN (IF IsZero(b) THEN Zero(a.neg /\ b.neg) ELSE b)
    ELSE IF IsZero(b) THEN a
    ELSE AddSignificands(a.neg, Shl(a.m, a.e - Min(a.e, b.e)),
                         b.neg, Shl(b.m, b.e - Min(a.e, b.e)), Min(a.e, b.e))

\* -b
Negate(b) == [b EXCEPT !.neg = ~b.neg]

\* a - b of two numbers
SubNumbers(a, b) ==
    IF isNaN(a) \/ isNaN(b) THEN NaN
    ELSE IF IsInf(a) THEN (IF IsInf(b) /\ a.neg = b.neg THEN NaN ELSE a)
    ELSE IF IsInf(b) THEN Inf(~b.neg)
    ELSE AddFinite(a, Negate(b))

Sub(x, y) == SubNumbers(ToNumber(x), ToNumber(y))

\* a < b of two finite numbers
BelowFinite(a, b) ==
    IF IsZero(a) /\ IsZero(b) THEN FALSE
    ELSE IF a.neg /\ ~b.neg THEN TRUE
    ELSE IF ~a.neg /\ b.neg THEN FALSE
    ELSE IF a.neg THEN CmpMagnitude(a, b) > 0
    ELSE CmpMagnitude(a, b) < 0

\* a < b of two numbers neither of which is NaN
Below(a, b) ==
    IF IsInf(a) THEN a.neg /\ ~(IsInf(b) /\ b.neg)
    ELSE IF IsInf(b) THEN ~b.neg
    ELSE BelowFinite(a, b)

\* JavaScript comparisons: false whenever an operand is NaN
Lt(x, y) ==
    /\ ~isNaN(ToNumber(x))
    /\ ~isNaN(ToNumber(y))
    /\ Below(ToNumber(x), ToNumber(y))

Le(x, y) ==
    /\ ~isNaN(ToNumber(x))
    /\ ~isNaN(ToNumber(y))
    /\ ~Below(ToNumber(y), ToNumber(x))

Gt(x, y) == Lt(y, x)

\* Math.max: 0 is larger than -0
MathMax(x, y) ==
    IF isNaN(ToNumber(x)) \/ isNaN(ToNumber(y)) THEN NaN
    ELSE IF IsZero(ToNumber(x)) /\ IsZero(ToNumber(y))
         THEN Zero(ToNumber(x).neg /\ ToNumber(y).neg)
    ELSE IF Lt(x, y) THEN ToNumber(y) ELSE ToNumber(x)

\* Math.pow(x, 2): x * x
MathPow2(x) == Mul(x, x)

\* the square root of m * 2^e, e even, from the integer square root r of m
SqrtRounded(m, e, r) == Round(FALSE, r, e \div 2, BigMul(r, r) # m)

\* the square root of m * 2^e, e even and m of at least 2 * Precision + 2 bits
SqrtScaled(m, e) == SqrtRounded(m, e, BigSqrt(m))

\* the square root of the finite x > 0: the significand shifted up by k bits
SqrtShifted(x, k) ==
    SqrtScaled(Shl(x.m, k + ((x.e - k) % 2)), x.e - k - ((x.e - k) % 2))

\* Math.sqrt
MathSqrt(x) ==
    IF x.k = "null" THEN Zero(FALSE)
    ELSE IF isNaN(x) THEN NaN
    ELSE IF IsZero(x) THEN x
    ELSE IF x.neg THEN NaN
    ELSE IF IsInf(x) THEN x
    ELSE SqrtShifted(x, Max(0, 2 * Precision + 2 - BitLen(x.m)))

\* Math.sqrt(3)
sqrt3 == MathSqrt(Num(3))

\* a faulty variant of OrDefault: the parsed value is used as it is
NoDefault(x, d) == x

\* a faulty variant of OrDefault: only a value that is not a number is replaced
DefaultForNaN(x, d) == IF isNaN(x) THEN d ELSE x

\* the || of  parseFloat(...) || d : 0, -0 and NaN are falsy
OrDefault(x, d) == IF isNaN(x) \/ IsZero(x) THEN d ELSE x
-----------------------------------------------------------------------------
(* Decimal notation *)

\* A decimal is a record [d, n]: the digits d (numbers 0..9, most significant
\* first) read as the fraction 0.d, times 10^n.

\* the nearest number to d * 10^p, for p >= 0
DecimalUp(neg, d, p) ==
    IF p > 309 THEN Inf(neg) ELSE Round(neg, BigMul(d, BigPow(10, p)), 0, FALSE)

\* the nearest number to d / t, the dividend shifted up by k bits
DecimalShifted(neg, d, t, k) == DivRounded(neg, BigDivMod(Shl(d, k), t), 0 - k)

\* the nearest number to d / t
DecimalOver(neg, d, t) ==
    DecimalShifted(neg, d, t, Max(0, Precision + 2 + BitLen(t) - BitLen(d)))

\* the nearest number to d * 10^p for a natural d of at most len digits
DecimalToNumber(neg, d, p, len) ==
    IF d = << >> THEN Zero(neg)
    ELSE IF p >= 0 THEN DecimalUp(neg, d, p)
    ELSE IF len + p <= 0 - 324 THEN Zero(neg)
    ELSE DecimalOver(neg, d, BigPow(10, 0 - p))

\* thousandths, for the literals of the source: i / 1000
Milli(i) == Div(Num(i), Num(1000))

\* the four decimal digits of a natural below 10000
FourDigits(v) == <<v \div 1000, (v \div 100) % 10, (v \div 10) % 10, v % 10>>

RECURSIVE ChunkDigits(_)

\* qr is n divided by 10000: the remainder, then the digits of the quotient
ChunkAfter(qr) == ChunkDigits(Trim(Tail(qr))) \o FourDigits(Head(qr))

\* the decimal digits of the natural n, most significant first; none for 0
ChunkDigits(n) ==
    IF n = << >> THEN << >>
    ELSE IF Len(n) = 1 /\ n[1] < 10000 THEN IntDigits(n[1])
    ELSE ChunkAfter(DivSmall(n, 10000))

\* the digits d with zeros before them, w digits in all
Padded(d, w) == [i \in 1..(w - Len(d)) |-> 0] \o d

\* a long natural is written in blocks of so many decimal digits
BlockDigits == 64

\* naturals of more digits in base Base are written in blocks
BlockLimbs == 14

RECURSIVE DigitsOfBig(_)

\* qr is n divided by 10^BlockDigits: quotient and remainder
DigitsAfter(qr) ==
    DigitsOfBig(qr[1]) \o Padded(ChunkDigits(qr[2]), BlockDigits)

\* the decimal digits of the natural n, most significant first; none for 0
DigitsOfBig(n) ==
    IF Len(n) <= BlockLimbs THEN ChunkDigits(n)
    ELSE DigitsAfter(BigDivMod(n, BigPow(10, BlockDigits)))

\* the integer the digits d[i..j] write, at most four of them
FewDigits(d, i, j) ==
    IF j < i THEN 0
    ELSE IF j = i THEN d[i]
    ELSE IF j = i + 1 THEN d[i] * 10 + d[j]
    ELSE IF j = i + 2 THEN d[i] * 100 + d[i + 1] * 10 + d[j]
    ELSE d[i] * 1000 + d[i + 1] * 100 + d[i + 2] * 10 + d[j]

RECURSIVE BigOfDigits(_, _)
\* the natural whose decimal digits are d[1..j], four digits at a time
BigOfDigits(d, j) ==
    IF j <= 4 THEN BigOf(FewDigits(d, 1, j))
    ELSE MulSmall(BigOfDigits(d, j - 4), 10000, FewDigits(d, j - 3, j))

\* the digits of 10^n are at most so many more than 30103 / 100000 of the
\* bits of 2^n
DecimalExponent(bits) == (((bits - 1) * 30103) \div 100000) + 1

\* digits of a number that are worked out to find the shortest decimal
LeadingDigits == 19

\* the digits ds of the whole part of x * 10^p, and after them a 1 when x has
\* more digits: a decimal that is x as far as its first LeadingDigits digits,
\* and is on the same side of every decimal of fewer digits
LeadingOf(ds, p, more) ==
    [d |-> IF more THEN Append(ds, 1) ELSE ds, n |-> Len(ds) - p]

\* part is a natural and whether x * 10^p has more than its whole part
LeadingPart(part, p) == LeadingOf(DigitsOfBig(part[1]), p, part[2])

\* t and q, its bits above the lowest s
ShiftedPart(t, q, s) == <<q, Shl(q, s) # t>>

\* t without its lowest s bits
ShiftedDown(t, s) == ShiftedPart(t, Shr(t, s), s)

\* qr is a quotient and its remainder
DividedPart(qr) == <<qr[1], qr[2] # << >> >>

\* the leading decimal of x = m * 2^e from x * 10^p
LeadingScaled(m, e, p) ==
    LeadingPart(IF p >= 0 /\ e >= 0
                THEN <<Shl(BigMul(m, BigPow(10, p)), e), FALSE>>
                ELSE IF p >= 0
                     THEN ShiftedDown(BigMul(m, BigPow(10, p)), 0 - e)
                ELSE DividedPart(BigDivMod(Shl(m, Max(e, 0)),
                                           Shl(BigPow(10, 0 - p),
                                               Max(0 - e, 0)))),
                p)

\* the leading decimal of a finite x # 0
LeadingDecimal(x) ==
    LeadingScaled(x.m, x.e, LeadingDigits - DecimalExponent(BitLen(x.m) + x.e))

\* the digits d without the zeros at their end
DropLastZeros(d) == Trim(d)

\* the position of the last digit of d that is not 9; 0 when all are
LastBelowNine(d) ==
    IF \A i \in 1..Len(d) : d[i] = 9 THEN 0
    ELSE CHOOSE i \in 1..Len(d) : d[i] # 9 /\ \A j \in (i + 1)..Len(d) : d[j] = 9

\* the digits d with the digit at p raised by one and zeros after it
RaisedAt(d, p) ==
    [i \in 1..Len(d) |-> IF i < p THEN d[i] ELSE IF i = p THEN d[i] + 1 ELSE 0]

\* the digits of the natural d + 1
DigitsPlusOne(d) ==
    IF LastBelowNine(d) = 0 THEN <<1>> \o [i \in 1..Len(d) |-> 0]
    ELSE RaisedAt(d, LastBelowNine(d))

\* the digits d[i..] against one half: -1 below, 0 equal, 1 above
AgainstHalf(d, i) ==
    IF i > Len(d) \/ d[i] < 5 THEN 0 - 1
    ELSE IF d[i] > 5 THEN 1
    ELSE IF \E j \in (i + 1)..Len(d) : d[j] # 0 THEN 1
    ELSE 0

\* the decimal of the k digits c, which stand for the first k digits of a
\* decimal whose exponent is n: one digit more when c was carried out
Carried(c, k, n) == [d |-> c, n |-> n + (Len(c) - k)]

\* the number a decimal is nearest to
NumberOfDecimal(dec) ==
    DecimalToNumber(FALSE, BigOfDigits(dec.d, Len(dec.d)), dec.n - Len(dec.d),
                    Len(dec.d))

\* the decimal of k digits just below (or at) the exact decimal ex
DecimalBelow(ex, k) == [d |-> SubSeq(ex.d, 1, k), n |-> ex.n]

\* the decimal of k digits just above the exact decimal ex
DecimalAbove(ex, k) == Carried(DigitsPlusOne(SubSeq(ex.d, 1, k)), k, ex.n)

\* 17 digits tell any two numbers apart
MostDigits == 17

\* a decimal of so many digits is the only one of its length that a number
\* with a full significand is nearest to
SureDigits == 15

\* the exponent of the least number with a full significand
MinNormal == 0 - 1022

\* for k digits: whether the decimal of k digits just below the exact decimal
\* ex of a (up = FALSE), or the one just above it, reads back as a
ReadsBack(a, ex) ==
    [k \in 1..MostDigits, up \in BOOLEAN |->
        NumberOfDecimal(IF up THEN DecimalAbove(ex, k)
                        ELSE DecimalBelow(ex, k)) = a]

RECURSIVE FewestDigits(_, _, _)
\* the least k in lo..hi such that a decimal of k digits reads back; one of
\* hi digits does
FewestDigits(reads, lo, hi) ==
    IF lo >= hi THEN hi
    ELSE IF reads[(lo + hi) \div 2, FALSE] \/ reads[(lo + hi) \div 2, TRUE]
         THEN FewestDigits(reads, lo, (lo + hi) \div 2)
         ELSE FewestDigits(reads, ((lo + hi) \div 2) + 1, hi)

\* the decimal of k digits that reads back, from the two around the exact
\* decimal ex: the nearer one when both do
ShortestOfTwo(ex, k, okBelow, okAbove, half) ==
    IF okBelow /\ okAbove
    THEN (IF half < 0 \/ (half = 0 /\ ex.d[k] % 2 = 0)
          THEN DecimalBelow(ex, k) ELSE DecimalAbove(ex, k))
    ELSE IF okBelow THEN DecimalBelow(ex, k)
    ELSE DecimalAbove(ex, k)

\* the decimal of k digits that reads back
ShortestWith(reads, ex, k) ==
    IF k >= Len(ex.d) THEN ex
    ELSE ShortestOfTwo(ex, k, reads[k, FALSE], reads[k, TRUE],
                       AgainstHalf(ex.d, k + 1))

Stripped(dec) == [d |-> DropLastZeros(dec.d), n |-> dec.n]

\* the decimal of k digits nearest to the leading decimal ex
NearestOf(ex, k) ==
    IF AgainstHalf(ex.d, k + 1) < 0 THEN DecimalBelow(ex, k)
    ELSE DecimalAbove(ex, k)

\* the shortest decimal of a number with a full significand: its nearest
\* decimal of SureDigits digits when that reads back, in which case every
\* shorter decimal that reads back is the same decimal
ShortestFull(reads, ex) ==
    IF Len(ex.d) <= SureDigits THEN ex
    ELSE IF reads[SureDigits, AgainstHalf(ex.d, SureDigits + 1) >= 0]
         THEN NearestOf(ex, SureDigits)
    ELSE ShortestWith(reads, ex,
                      IF reads[SureDigits + 1, FALSE] \/ reads[SureDigits + 1, TRUE]
                      THEN SureDigits + 1 ELSE MostDigits)

\* the fewest digits that read back, and of these the nearest
ShortestBy(reads, ex, full) ==
    IF full THEN Stripped(ShortestFull(reads, ex))
    ELSE Stripped(ShortestWith(reads, ex,
                               FewestDigits(reads, 1,
                                            Min(MostDigits, Len(ex.d)))))

\* the digits Number.prototype.toString writes for a finite a > 0 whose leading
\* decimal is ex
Shortest(a, ex) ==
    ShortestBy(ReadsBack(a, ex), ex, BitLen(a.m) + a.e > MinNormal)

\* the digits of an integer below 2^Precision are its shortest decimal
WholeDecimal(ds) == [d |-> DropLastZeros(ds), n |-> Len(ds)]

ShortestDecimal(x) ==
    IF x.e >= 0 /\ BitLen(x.m) + x.e <= Precision
    THEN WholeDecimal(DigitsOfBig(Shl(x.m, x.e)))
    ELSE Shortest([x EXCEPT !.neg = FALSE], LeadingDecimal(x))

-----------------------------------------------------------------------------
(* Text <-> number conversions *)

Digits == <<"0", "1", "2", "3", "4", "5", "6", "7", "8", "9">>

IsDigit(c) == \E i \in 1..10 : Digits[i] = c

DigitVal(c) == (CHOOSE i \in 1..10 : Digits[i] = c) - 1

\* StrWhiteSpaceChar, the white space and line terminators parseFloat and
\* parseInt skip: space, tab, line feed, carriage return, form feed, and
\* written as themselves the vertical tab U+000B, the no-break space U+00A0,
\* U+1680 and U+FEFF.  The other space separators (U+2000 to U+200A, U+202F,
\* U+205F, U+3000) and U+2028, U+2029 cannot be written in a string here
IsWhite(c) == c \in {" ", "\t", "\n", "\r", "\f", "", " ", " ", "﻿"}

\* the index just after the run of characters of s that starts at i and
\* satisfies In
RunEnd(s, i, In(_)) ==
    IF \A t \in i..Len(s) : In(s[t]) THEN Max(i, Len(s) + 1)
    ELSE CHOOSE j \in i..Len(s) : ~In(s[j]) /\ \A t \in i..(j - 1) : In(s[t])

SkipWhite(s, i) == RunEnd(s, i, IsWhite)

\* the index just after the run of digits of s that starts at i
TakeDigits(s, i) == RunEnd(s, i, IsDigit)

HexDigits == <<"0", "1", "2", "3", "4", "5", "6", "7", "8", "9",
               "a", "b", "c", "d", "e", "f">>

HexUpper == <<"0", "1", "2", "3", "4", "5", "6", "7", "8", "9",
              "A", "B", "C", "D", "E", "F">>

IsHexDigit(c) == \E i \in 1..16 : HexDigits[i] = c \/ HexUpper[i] = c

HexVal(c) == (CHOOSE i \in 1..16 : HexDigits[i] = c \/ HexUpper[i] = c) - 1

TakeHexDigits(s, i) == RunEnd(s, i, IsHexDigit)

RECURSIVE RadixVal(_, _, _, _)
\* the natural the digits s[i..j-1] write in the radix 10 or 16
RadixVal(s, i, j, radix) ==
    IF j <= i THEN << >>
    ELSE IF j = i + 1 THEN BigOf(HexVal(s[i]))
    ELSE BigAdd(BigMul(RadixVal(s, i, (i + j) \div 2, radix),
                       BigPow(radix, j - ((i + j) \div 2))),
                RadixVal(s, (i + j) \div 2, j, radix))

\* the natural the decimal digits s[i..j-1] write
DigitsVal(s, i, j) == RadixVal(s, i, j, 10)

\* no binary64 number other than 0 and the Infinities is as far as this many
\* decimal places from the first or the last digit of its literal
ExponentMargin == 400

\* the exponent of a literal in the text s is held at this magnitude: the
\* literal has fewer than Len(s) digits, so that a greater exponent gives
\* Infinity or 0 as this one does
ExponentLimit(s) == Len(s) + ExponentMargin

RECURSIVE SmallVal(_, _, _)
\* the integer the few digits s[i..j-1] write
SmallVal(s, i, j) ==
    IF j <= i THEN 0 ELSE SmallVal(s, i, j - 1) * 10 + DigitVal(s[j - 1])

IsZeroDigit(c) == c = "0"

\* the integer the exponent digits s[i..j-1] write, from the first digit i0
\* that is not 0, held at ExponentLimit(s)
ExponentHeld(s, i0, j) ==
    IF j - i0 > 9 THEN ExponentLimit(s)
    ELSE Min(SmallVal(s, i0, j), ExponentLimit(s))

\* the integer the exponent digits s[i..j-1] write, held at ExponentLimit(s)
ExponentVal(s, i, j) == ExponentHeld(s, Min(j, RunEnd(s, i, IsZeroDigit)), j)

\* the literal with integer digits s[i1..i2-1], fraction digits s[f1..f2-1]
\* and decimal exponent ex
ParseDecimal(s, neg, i1, i2, f1, f2, ex) ==
    DecimalToNumber(neg,
                    BigAdd(BigMul(DigitsVal(s, i1, i2), BigPow(10, f2 - f1)),
                           DigitsVal(s, f1, f2)),
                    ex - (f2 - f1), (i2 - i1) + (f2 - f1))

\* s has one of the characters cs at i
HasAt(s, i, cs) == i <= Len(s) /\ s[i] \in cs

\* the exponent whose digits begin at s[i], negated when neg; without digits
\* there is no exponent part and the literal ends before it
SignedExponent(s, neg, i) ==
    IF neg THEN 0 - ExponentVal(s, i, TakeDigits(s, i))
    ELSE ExponentVal(s, i, TakeDigits(s, i))

\* the exponent after an e or E, at s[i]: a sign, then digits
ExponentFrom(s, i) ==
    SignedExponent(s, HasAt(s, i, {"-"}),
                   IF HasAt(s, i, {"+", "-"}) THEN i + 1 ELSE i)

\* the decimal exponent of the literal whose digits end before s[i3]
ParseExponent(s, i3) ==
    IF HasAt(s, i3, {"e", "E"}) THEN ExponentFrom(s, i3 + 1) ELSE 0

\* the integer digits s[i1..i2-1] and the fraction digits s[f1..f2-1]: no
\* literal when there is no digit at all
ParseDigits(s, neg, i1, i2, f1, f2) ==
    IF (i2 - i1) + (f2 - f1) = 0 THEN NaN
    ELSE ParseDecimal(s, neg, i1, i2, f1, f2, ParseExponent(s, f2))

\* after the integer digits s[i1..i2-1]: a point and the fraction digits
ParseFraction(s, neg, i1, i2) ==
    ParseDigits(s, neg, i1, i2,
                IF HasAt(s, i2, {"."}) THEN i2 + 1 ELSE i2,
                IF HasAt(s, i2, {"."}) THEN TakeDigits(s, i2 + 1) ELSE i2)

InfinityText == <<"I", "n", "f", "i", "n", "i", "t", "y">>

\* the text s continues at s[i] with the characters of t
StartsAt(s, i, t) ==
    /\ i + Len(t) - 1 <= Len(s)
    /\ \A j \in 1..Len(t) : s[i + j - 1] = t[j]

\* after the sign, at s[i]: the literal Infinity or a decimal literal
ParseMagnitude(s, neg, i) ==
    IF StartsAt(s, i, InfinityText) THEN Inf(neg)
    ELSE ParseFraction(s, neg, i, TakeDigits(s, i))

\* after the leading white space, at s[i0]: a sign
ParseSigned(s, i0) ==
    ParseMagnitude(s, HasAt(s, i0, {"-"}),
                   IF HasAt(s, i0, {"+", "-"}) THEN i0 + 1 ELSE i0)

\* parseFloat: leading white space, sign, then Infinity or digits, fraction,
\* exponent; the longest prefix that is such a literal; NaN when there is none
parseFloat(s) == ParseSigned(s, SkipWhite(s, 1))

\* the integer the digits write, nearest number; NaN when there is no digit
ParseIntValue(neg, n, val) ==
    IF n = 0 THEN NaN
    ELSE IF val = << >> THEN Zero(neg)
    ELSE Round(neg, val, 0, FALSE)

\* the digits s[i..j-1] in the radix
ParseIntDigits(s, neg, i, j, radix) ==
    ParseIntValue(neg, j - i, RadixVal(s, i, j, radix))

\* the digits that begin at s[i], in the radix
ParseIntFrom(s, neg, i, radix) ==
    ParseIntDigits(s, neg, i,
                   IF radix = 16 THEN TakeHexDigits(s, i) ELSE TakeDigits(s, i),
                   radix)

\* after the sign, at s[i]: 0x or 0X makes the radix 16, else it is 10
ParseIntRadix(s, neg, i) ==
    ParseIntFrom(s, neg,
                 IF HasAt(s, i, {"0"}) /\ HasAt(s, i + 1, {"x", "X"})
                 THEN i + 2 ELSE i,
                 IF HasAt(s, i, {"0"}) /\ HasAt(s, i + 1, {"x", "X"})
                 THEN 16 ELSE 10)

ParseIntSigned(s, i0) ==
    ParseIntRadix(s, HasAt(s, i0, {"-"}),
                  IF HasAt(s, i0, {"+", "-"}) THEN i0 + 1 ELSE i0)

\* parseInt with no radix: leading white space, sign, 0x or 0X and
\* hexadecimal digits, or decimal digits; NaN when there is no digit
parseInt(s) == ParseIntSigned(s, SkipWhite(s, 1))

\* the characters of the digits d
DigitText(d) == [i \in 1..Len(d) |-> Digits[d[i] + 1]]

Zeros(n) == [i \in 1..n |-> "0"]

\* the exponent part of the scientific notation
ExponentText(e) ==
    IF e < 0 THEN <<"e", "-">> \o DigitText(IntDigits(0 - e))
    ELSE <<"e", "+">> \o DigitText(IntDigits(e))

\* the digits d of a decimal with exponent n, as Number.prototype.toString
\* lays them out
NumberText(d, n) ==
    IF Len(d) <= n /\ n <= 21 THEN DigitText(d) \o Zeros(n - Len(d))
    ELSE IF 0 < n /\ n <= 21
         THEN DigitText(SubSeq(d, 1, n)) \o <<".">>
              \o DigitText(SubSeq(d, n + 1, Len(d)))
    ELSE IF 0 - 6 < n /\ n <= 0
         THEN <<"0", ".">> \o Zeros(0 - n) \o DigitText(d)
    ELSE IF Len(d) = 1 THEN DigitText(d) \o ExponentText(n - 1)
    ELSE <<Digits[d[1] + 1], ".">> \o DigitText(SubSeq(d, 2, Len(d)))
         \o ExponentText(n - 1)

DecimalText(dec) == NumberText(dec.d, dec.n)

WithSign(neg, body) == IF neg THEN <<"-">> \o body ELSE body

\* Number.prototype.toString
toString(x) ==
    IF isNaN(x) THEN <<"N", "a", "N">>
    ELSE IF IsInf(x) THEN WithSign(x.neg, InfinityText)
    ELSE IF IsZero(x) THEN <<"0">>
    ELSE WithSign(x.neg, DecimalText(ShortestDecimal(x)))

\* the integer nearest to m * 2^e * 10^f, the larger one of two
FixedNearest(t, e) ==
    IF e >= 0 THEN Shl(t, e)
    ELSE Shr(BigAdd(t, Shl(<<1>>, (0 - e) - 1)), 0 - e)

\* the digits r of an integer, with the point f digits from the right
FixedText(r, f) ==
    IF Len(r) <= f
    THEN <<"0">> \o (IF f > 0 THEN <<".">> ELSE << >>)
         \o Zeros(f - Len(r)) \o DigitText(r)
    ELSE DigitText(SubSeq(r, 1, Len(r) - f))
         \o (IF f > 0 THEN <<".">> ELSE << >>)
         \o DigitText(SubSeq(r, Len(r) - f + 1, Len(r)))

\* 10^21: toFixed writes a number of this size as toString does
FixedLimit == Finite(FALSE, BigPow(10, 21), 0)

\* Number.prototype.toFixed(f)
toFixed(x, f) ==
    IF isNaN(x) THEN <<"N", "a", "N">>
    ELSE IF IsInf(x) THEN WithSign(x.neg, InfinityText)
    ELSE IF IsZero(x) THEN FixedText(<< >>, f)
    ELSE IF CmpMagnitude(x, FixedLimit) >= 0 THEN toString(x)
    ELSE WithSign(x.neg,
                  FixedText(DigitsOfBig(FixedNearest(BigMul(x.m, BigPow(10, f)),
                                                     x.e)), f))

-----------------------------------------------------------------------------
(* Validation *)

VALIDATION_RULES ==
    [voltage     |-> [min |-> Num(0), max |-> Num(1000000), required |-> TRUE,
                      description |-> "Voltage"],
     current     |-> [min |-> Num(0), max |-> Num(100000), required |-> TRUE,
                      description |-> "Current"],
     powerFactor |-> [min |-> Milli(500), max |-> Num(1), required |-> FALSE,
                      description |-> "Power Factor"],
     efficiency  |-> [min |-> Num(0), max |-> Num(100), required |-> FALSE,
                      description |-> "Efficiency"],
     rate        |-> [min |-> Num(0), max |-> Num(10), required |-> FALSE,
                      description |-> "Electricity Rate"]]

\* a faulty variant of RequiredErrors: the maximum itself is rejected
RequiredErrorsStrict(x, rule) ==
    IF isNaN(x) \/ x = null
        THEN << <<rule.description, " is required">> >>
    ELSE IF Le(x, rule.min)
        THEN << <<rule.description, " must be greater than 0">> >>
    ELSE IF ~Lt(x, rule.max)
        THEN << <<rule.description, " exceeds maximum limit">> >>
    ELSE << >>

\* the if / else-if chain of a required field: at most one message
RequiredErrors(x, rule) ==
    IF isNaN(x) \/ x = null
        THEN << <<rule.description, " is required">> >>
    ELSE IF Le(x, rule.min)
        THEN << <<rule.description, " must be greater than 0">> >>
    ELSE IF Gt(x, rule.max)
        THEN << <<rule.description, " exceeds maximum limit">> >>
    ELSE << >>

\* a faulty variant of OptionalErrors: the two bounds of the range are rejected
OptionalErrorsStrict(x, rule, text) ==
    IF ~isNaN(x) /\ x # null /\ (Le(x, rule.min) \/ ~Lt(x, rule.max))
        THEN << <<rule.description, text>> >>
    ELSE << >>

\* the guarded range check of an optional field
OptionalErrors(x, rule, text) ==
    IF ~isNaN(x) /\ x # null /\ (Lt(x, rule.min) \/ Gt(x, rule.max))
        THEN << <<rule.description, text>> >>
    ELSE << >>

\* a faulty variant of validateInputs: the checks stop at the first failure
validateFirst(voltage, current, powerFactor, efficiency) ==
    LET v  == RequiredErrors(voltage, VALIDATION_RULES.voltage)
        c  == RequiredErrors(current, VALIDATION_RULES.current)
        pf == OptionalErrors(powerFactor, VALIDATION_RULES.powerFactor,
                             " must be between 0.5 and 1.0")
        e  == OptionalErrors(efficiency, VALIDATION_RULES.efficiency,
                             " must be between 0 and 100")
        errors == IF v # << >> THEN v
                  ELSE IF c # << >> THEN c
                  ELSE IF pf # << >> THEN pf
                  ELSE e
    IN  [isValid |-> Len(errors) = 0, errors |-> errors]

\* the result of validateInputs for the errors pushed
Validation(errors) == [isValid |-> Len(errors) = 0, errors |-> errors]

\* the errors pushed by the four checks, in their order, under the rules
InputErrors(rules, voltage, current, powerFactor, efficiency) ==
       RequiredErrors(voltage, rules.voltage)
    \o RequiredErrors(current, rules.current)
    \o OptionalErrors(powerFactor, rules.powerFactor,
                      " must be between 0.5 and 1.0")
    \o OptionalErrors(efficiency, rules.efficiency,
                      " must be between 0 and 100")

validateInputs(voltage, current, powerFactor, efficiency) ==
    Validation(InputErrors(VALIDATION_RULES, voltage, current, powerFactor,
                           efficiency))

\* the error list as rendered into the results panel
displayErrors(errors) == [kind |-> "errors", items |-> errors]

-----------------------------------------------------------------------------
(* Calculation *)

\* a faulty variant of calculatePower: the real power is computed like the
\* apparent power, without the power factor
calculatePowerNoFactor(voltage, current, phase, powerFactor, efficiency, rate) ==
    LET kva == IF phase = Num(1)
               THEN Div(Mul(voltage, current), Num(1000))
               ELSE Div(Mul(Mul(sqrt3, voltage), current), Num(1000))
        kw  == kva
        adjustedPower == Mul(kw, Div(efficiency, Num(100)))
        kvar == MathSqrt(MathMax(Num(0), Sub(MathPow2(kva), MathPow2(kw))))
        costPerHour  == Mul(adjustedPower, rate)
        costPerDay   == Mul(costPerHour, Num(24))
        costPerMonth == Mul(costPerDay, Num(30))
        costPerYear  == Mul(costPerDay, Num(365))
    IN  [kw |-> kw, kva |-> kva, kvar |-> kvar, pf |-> powerFactor,
         adjustedPower |-> adjustedPower, phase |-> phase,
         costPerHour |-> costPerHour, costPerDay |-> costPerDay,
         costPerMonth |-> costPerMonth, costPerYear |-> costPerYear]

\* a faulty variant of calculatePower: the year is twelve months of 30 days
calculatePowerShortYear(voltage, current, phase, powerFactor, efficiency, rate) ==
    LET kva == IF phase = Num(1)
               THEN Div(Mul(voltage, current), Num(1000))
               ELSE Div(Mul(Mul(sqrt3, voltage), current), Num(1000))
        kw  == Mul(kva, powerFactor)
        adjustedPower == Mul(kw, Div(efficiency, Num(100)))
        kvar == MathSqrt(MathMax(Num(0), Sub(MathPow2(kva), MathPow2(kw))))
        costPerHour  == Mul(adjustedPower, rate)
        costPerDay   == Mul(costPerHour, Num(24))
        costPerMonth == Mul(costPerDay, Num(30))
        costPerYear  == Mul(costPerMonth, Num(12))
    IN  [kw |-> kw, kva |-> kva, kvar |-> kvar, pf |-> powerFactor,
         adjustedPower |-> adjustedPower, phase |-> phase,
         costPerHour |-> costPerHour, costPerDay |-> costPerDay,
         costPerMonth |-> costPerMonth, costPerYear |-> costPerYear]

\* a faulty variant of calculatePower: the reactive power is taken from the
\* adjusted power instead of the real power
calculatePowerKvarOfAdjusted(voltage, current, phase, powerFactor, efficiency, rate) ==
    LET kva == IF phase = Num(1)
               THEN Div(Mul(voltage, current), Num(1000))
               ELSE Div(Mul(Mul(sqrt3, voltage), current), Num(1000))
        kw  == Mul(kva, powerFactor)
        adjustedPower == Mul(kw, Div(efficiency, Num(100)))
        kvar == MathSqrt(MathMax(Num(0), Sub(MathPow2(kva), MathPow2(adjustedPower))))
        costPerHour  == Mul(adjustedPower, rate)
        costPerDay   == Mul(costPerHour, Num(24))
        costPerMonth == Mul(costPerDay, Num(30))
        costPerYear  == Mul(costPerDay, Num(365))
    IN  [kw |-> kw, kva |-> kva, kvar |-> kvar, pf |-> powerFactor,
         adjustedPower |-> adjustedPower, phase |-> phase,
         costPerHour |-> costPerHour, costPerDay |-> costPerDay,
         costPerMonth |-> costPerMonth, costPerYear |-> costPerYear]

\* kva, in either branch of the test of the phase
ApparentPower(voltage, current, phase) ==
    IF phase = Num(1)
    THEN Div(Mul(voltage, current), Num(1000))
    ELSE Div(Mul(Mul(sqrt3, voltage), current), Num(1000))

\* kvar
ReactivePower(kva, kw) ==
    MathSqrt(MathMax(Num(0), Sub(MathPow2(kva), MathPow2(kw))))

\* the object calculatePower returns, from costPerDay on
PowerPerDay(kw, kva, kvar, powerFactor, adjustedPower, phase, costPerHour,
            costPerDay) ==
    [kw |-> kw, kva |-> kva, kvar |-> kvar, pf |-> powerFactor,
     adjustedPower |-> adjustedPower, phase |-> phase,
     costPerHour |-> costPerHour, costPerDay |-> costPerDay,
     costPerMonth |-> Mul(costPerDay, Num(30)),
     costPerYear |-> Mul(costPerDay, Num(365))]

\* from costPerHour on
PowerPerHour(kw, kva, kvar, powerFactor, adjustedPower, phase, costPerHour) ==
    PowerPerDay(kw, kva, kvar, powerFactor, adjustedPower, phase, costPerHour,
                Mul(costPerHour, Num(24)))

\* from adjustedPower and kvar on
PowerAdjusted(kw, kva, kvar, powerFactor, adjustedPower, phase, rate) ==
    PowerPerHour(kw, kva, kvar, powerFactor, adjustedPower, phase,
                 Mul(adjustedPower, rate))

\* from kw on
RealPower(kw, kva, phase, powerFactor, efficiency, rate) ==
    PowerAdjusted(kw, kva, ReactivePower(kva, kw), powerFactor,
                  Mul(kw, Div(efficiency, Num(100))), phase, rate)

\* from kva on
PowerOfKva(kva, phase, powerFactor, efficiency, rate) ==
    RealPower(Mul(kva, powerFactor), kva, phase, powerFactor, efficiency, rate)

\* each constant of the function body is worked out once and handed on
calculatePower(voltage, current, phase, powerFactor, efficiency, rate) ==
    PowerOfKva(ApparentPower(voltage, current, phase), phase, powerFactor,
               efficiency, rate)

-----------------------------------------------------------------------------
(* Input elements *)

ElementIds ==
    {"voltage", "current", "phase", "powerFactor", "efficiency", "electricityRate"}

\* the element values of a freshly loaded page: the inputs are empty and the
\* phase select shows its first option, single phase
InitialFields ==
    [voltage |-> << >>, current |-> << >>, phase |-> <<"1">>,
     powerFactor |-> << >>, efficiency |-> << >>, electricityRate |-> << >>]

\* the texts typed into each element while the history is followed
FieldTexts ==
    [voltage         |-> {<< >>, <<"4", "8", "0">>},
     current         |-> {<<"1", "0", "0">>},
     phase           |-> {},
     powerFactor     |-> {},
     efficiency      |-> {},
     electricityRate |-> {}]

\* the texts typed into each element while the inputs are followed: the
\* optional fields are cleared, set to 0 or set to a value of their range
InputTexts ==
    [voltage         |-> {<<"4", "8", "0">>},
     current         |-> {<<"1", "0", "0">>},
     phase           |-> {<<"1">>, <<"3">>},
     powerFactor     |-> {<< >>, <<"0">>, <<"0", ".", "8">>},
     efficiency      |-> {<< >>, <<"0">>, <<"9", "0">>},
     electricityRate |-> {<< >>, <<"0">>, <<"0", ".", "1", "5">>}]

\* the texts typed while the electricity rate is followed: a valid voltage
\* and current, and rates inside the rule of VALIDATION_RULES.rate, outside
\* it, and beyond every finite number
RateTexts ==
    [voltage         |-> {<<"1", "2", "0">>},
     current         |-> {<<"1", "0">>},
     phase           |-> {},
     powerFactor     |-> {},
     efficiency      |-> {},
     electricityRate |-> {<< >>, <<"1", "0">>, <<"5", "0">>, <<"-", "1">>,
                          InfinityText}]

\* the literals 0.9, 100 and 0.12 of getInputValues
DefaultPowerFactor == Milli(900)

DefaultEfficiency == Num(100)

DefaultRate == Milli(120)

\* the number the value of element el is read as: parseInt for the phase
\* select, parseFloat for the five inputs
ElementNumber(el, text) ==
    IF el = "phase" THEN parseInt(text) ELSE parseFloat(text)

\* the numbers the element values f are read as, by element id
ElementNumbers(f) == [el \in ElementIds |-> ElementNumber(el, f[el])]

\* the object getInputValues returns for the numbers n read from the elements
InputValues(n) ==
    [voltage     |-> n.voltage,
     current     |-> n.current,
     phase       |-> n.phase,
     powerFactor |-> OrDefault(n.powerFactor, DefaultPowerFactor),
     efficiency  |-> OrDefault(n.efficiency, DefaultEfficiency),
     rate        |-> OrDefault(n.electricityRate, DefaultRate)]

getInputValues(f) == InputValues(ElementNumbers(f))

-----------------------------------------------------------------------------
(* The results panel *)

\* the digits displayResults writes after the point of each figure
ResultDigits ==
    [kw |-> 2, kva |-> 2, kvar |-> 2, pf |-> 3, adjustedPower |-> 2,
     costPerHour |-> 3, costPerDay |-> 2, costPerMonth |-> 2,
     costPerYear |-> 2]

\* the results panel for a phase and the texts of the figures
ResultsPanel(phase, fixed) ==
    [kind          |-> "results",
     kw            |-> fixed["kw"],
     kva           |-> fixed["kva"],
     kvar          |-> fixed["kvar"],
     pf            |-> fixed["pf"],
     adjustedPower |-> fixed["adjustedPower"],
     phase         |-> IF phase = Num(1) THEN "Single" ELSE "Three",
     costPerHour   |-> fixed["costPerHour"],
     costPerDay    |-> fixed["costPerDay"],
     costPerMonth  |-> fixed["costPerMonth"],
     costPerYear   |-> fixed["costPerYear"]]

\* the result as rendered into the results panel: every figure through
\* toFixed, the phase as one of two words
displayResults(result) ==
    ResultsPanel(result.phase,
                 [key \in DOMAIN ResultDigits |->
                     toFixed(result[key], ResultDigits[key])])

\* validateInputs(voltage, current, powerFactor, efficiency) of the inputs in
validateInputsOf(in) ==
    validateInputs(in.voltage, in.current, in.powerFactor, in.efficiency)

\* calculatePower(voltage, current, phase, powerFactor, efficiency, rate) of
\* the inputs in
calculatePowerOf(in) ==
    calculatePower(in.voltage, in.current, in.phase, in.powerFactor,
                   in.efficiency, in.rate)

\* what updateCalculations leaves in the results panel for the inputs in,
\* given what validateInputs said of them
ResultsAfter(in, validation) ==
    IF ~validation.isValid THEN displayErrors(validation.errors)
    ELSE displayResults(calculatePowerOf(in))

ResultsFor(in) == ResultsAfter(in, validateInputsOf(in))

\* what updateCalculations leaves in the results panel for the field values f
updateCalculations(f) == ResultsFor(getInputValues(f))

-----------------------------------------------------------------------------
(* JSON *)

\* JSON.stringify writes a finite number as the shortest decimal text that
\* reads back as the same number, -0 as 0, and NaN and the Infinities as null;
\* JSON.parse reads the text back.  A stored finite number is therefore kept
\* as its value, -0 as 0, anything else as null.
stringifyNumber(x) ==
    IF ~IsFinite(x) THEN null
    ELSE IF IsZero(x) THEN Zero(FALSE)
    ELSE x

stringifyResult(r) == [key \in DOMAIN r |-> stringifyNumber(r[key])]

stringifyItem(item) ==
    [key \in DOMAIN item |->
        IF key = "id" THEN item[key]
        ELSE IF key = "result" THEN stringifyResult(item[key])
        ELSE stringifyNumber(item[key])]

\* JSON.stringify of a history array
JSONstringify(history) == [i \in 1..Len(history) |-> stringifyItem(history[i])]

\* JSON.parse of a stored history
JSONparse(json) == json

-----------------------------------------------------------------------------
(* localStorage *)

getItem(store, key) == store[key]

\* a faulty variant of setItem: the other keys are lost
setItemAlone(store, key, value) ==
    [k \in DOMAIN store |-> IF k = key THEN <<value>> ELSE << >>]

setItem(store, key, value) == [store EXCEPT ![key] = <<value>>]

removeItem(store, key) == [store EXCEPT ![key] = <<>>]

Present(v) == Len(v) = 1

-----------------------------------------------------------------------------
(* Values worked out once *)

\* The handlers of the page look up what the conversions and the calculation
\* give for the element values the texts above lead to; each table below
\* holds what the operator it is built with gives, value by value.

\* the function fn, written out: f @@ g is f wherever f is defined
Tabulated(fn) == fn @@ << >>

TextFamilies == {FieldTexts, InputTexts, RateTexts}

\* the texts loadHistoryItem writes for the defaults of getInputValues
DefaultTexts ==
    [voltage         |-> {},
     current         |-> {},
     phase           |-> {},
     powerFactor     |-> {<<"0", ".", "9">>},
     efficiency      |-> {<<"1", "0", "0">>},
     electricityRate |-> {<<"0", ".", "1", "2">>}]

\* the values element el takes: typed, found at first or written by
\* loadHistoryItem
ElementTexts(texts, el) ==
    texts[el] \cup {InitialFields[el]} \cup DefaultTexts[el]

\* the values of the six elements together
FieldsOf(texts) ==
    [voltage         : ElementTexts(texts, "voltage"),
     current         : ElementTexts(texts, "current"),
     phase           : ElementTexts(texts, "phase"),
     powerFactor     : ElementTexts(texts, "powerFactor"),
     efficiency      : ElementTexts(texts, "efficiency"),
     electricityRate : ElementTexts(texts, "electricityRate")]

TypedFields == UNION {FieldsOf(texts) : texts \in TextFamilies}

\* updateCalculations() for each of them
PanelOfFields == Tabulated([f \in TypedFields |-> updateCalculations(f)])

\* the inputs and what calculatePower returns for them
Calculation(in) == [inputs |-> in, result |-> calculatePowerOf(in)]

\* getInputValues() and calculatePower(...) for each of them
CalculationOfFields ==
    Tabulated([f \in TypedFields |-> Calculation(getInputValues(f))])

TypedTexts ==
    UNION {ElementTexts(texts, el) : texts \in TextFamilies, el \in ElementIds}

\* the numbers a stored item holds for its inputs
StoredNumbers == {stringifyNumber(parseFloat(t)) : t \in TypedTexts} \ {null}

\* x.toString() for each of them
TextOfNumber == Tabulated([x \in StoredNumbers |-> toString(x)])

\* the two figures of a result that displayHistory shows, as stored
StoredFigures(r) ==
    {stringifyNumber(r.adjustedPower), stringifyNumber(r.costPerMonth)}

ShownFigures ==
    UNION {StoredFigures(CalculationOfFields[f].result) : f \in TypedFields}
        \ {null}

\* x.toFixed(2) for each of them
FixedOfFigure == Tabulated([x \in ShownFigures |-> toFixed(x, 2)])

-----------------------------------------------------------------------------
(* History *)

HistoryLimit == 10

\* JSON.parse of the stored text, [] when there is none
parsedHistory(historyData) ==
    IF Present(historyData) THEN JSONparse(historyData[1]) ELSE << >>

getHistoryOf(store) == parsedHistory(getItem(store, "calculationHistory"))

getHistory == getHistoryOf(localStorage)

\* a faulty variant of unshift: the item is added at the end
push(history, item) == Append(history, item)

\* history.unshift(item)
unshift(history, item) == <<item>> \o history

\* a faulty variant of splice: the last n entries stay
spliceLast(history, n) == SubSeq(history, Len(history) - n + 1, Len(history))

\* history.splice(n): the first n entries stay
splice(history, n) == SubSeq(history, 1, n)

RECURSIVE filterKeepMatching(_, _)
\* a faulty variant of filter: the test is inverted
filterKeepMatching(history, id) ==
    IF history = << >> THEN << >>
    ELSE IF Head(history).id = id
         THEN <<Head(history)>> \o filterKeepMatching(Tail(history), id)
         ELSE filterKeepMatching(Tail(history), id)

RECURSIVE filterFirst(_, _)
\* a faulty variant of filter: only the first entry with the id is removed
filterFirst(history, id) ==
    IF history = << >> THEN << >>
    ELSE IF Head(history).id # id
         THEN <<Head(history)>> \o filterFirst(Tail(history), id)
         ELSE Tail(history)

RECURSIVE filter(_, _)
\* history.filter(item => item.id !== id)
filter(history, id) ==
    IF history = << >> THEN << >>
    ELSE IF Head(history).id # id
         THEN <<Head(history)>> \o filter(Tail(history), id)
         ELSE filter(Tail(history), id)

\* history.find(h => h.id === id): <<>> when there is none
find(history, id) ==
    IF \E i \in 1..Len(history) : history[i].id = id
    THEN <<history[CHOOSE i \in 1..Len(history) :
                /\ history[i].id = id
                /\ \A j \in 1..(i - 1) : history[j].id # id]>>
    ELSE << >>

\* Date.now()
DateNow(t) == Num(t)

\* the item saveCalculation builds from the inputs and the result, with
\* Date.now() read as t1 for the id and as t2 for the timestamp
historyItem(in, result, t1, t2) ==
    [id          |-> toString(DateNow(t1)),
     timestamp   |-> DateNow(t2),
     voltage     |-> in.voltage,
     current     |-> in.current,
     phase       |-> in.phase,
     powerFactor |-> in.powerFactor,
     efficiency  |-> in.efficiency,
     rate        |-> in.rate,
     result      |-> result]

\* ${x} in a template literal: a null is written as the text null
TemplateText(x) == IF x = null THEN <<"n", "u", "l", "l">> ELSE TextOfNumber[x]

\* the stored inputs displayHistory writes with ${...}
ShownInputs == {"voltage", "current", "phase", "powerFactor"}

\* the figures of the stored result displayHistory writes with toFixed(2)
ShownResults == {"adjustedPower", "costPerMonth"}

\* what displayHistory renders for one item, given the texts of its inputs
\* and of its figures
HistoryRow(item, text, fixed) ==
    [date          |-> item.timestamp,
     id            |-> item.id,
     voltage       |-> text["voltage"],
     current       |-> text["current"],
     phase         |-> text["phase"],
     powerFactor   |-> text["powerFactor"],
     adjustedPower |-> fixed["adjustedPower"],
     costPerMonth  |-> fixed["costPerMonth"]]

\* what displayHistory renders for one item
historyRow(item) ==
    HistoryRow(item,
               [key \in ShownInputs |-> TemplateText(item[key])],
               [key \in ShownResults |-> FixedOfFigure[item.result[key]]])

\* the panel while no calculation is stored
noHistory == [kind |-> "none", items |-> << >>]

historyRows(history) ==
    IF Len(history) = 0 THEN noHistory
    ELSE [kind |-> "items",
          items |-> [i \in 1..Len(history) |-> historyRow(history[i])]]

\* what displayHistory renders for the stored history
displayHistory(store) == historyRows(getHistoryOf(store))

\* displayHistory throws a TypeError: toFixed is applied to a stored null
displayHistoryThrows(store) ==
    \E i \in 1..Len(getHistoryOf(store)) :
        \/ getHistoryOf(store)[i].result.adjustedPower = null
        \/ getHistoryOf(store)[i].result.costPerMonth = null

\* the history panel after a call of displayHistory made while it showed
\* shown: innerHTML is not assigned when the rendering throws
historyListAfter(store, shown) ==
    IF displayHistoryThrows(store) THEN shown ELSE displayHistory(store)

-----------------------------------------------------------------------------
(* The page *)

\* the ids handed to deleteHistoryItem and loadHistoryItem
IdArgs == {toString(DateNow(t)) : t \in 0..MaxClock}

welcome == [kind |-> "welcome"]

\* the results panel and the history panel of the document before any script
\* has written to them
blankResults == [kind |-> "blank"]

blankHistory == [kind |-> "blank", items |-> << >>]

\* op: the handler, whether it went through (the inputs were valid, the user
\* confirmed, the id was found) and whether it took entries out of the history
Ran(name, ok, hit) == [name |-> name, ok |-> ok, hit |-> hit]

\* log: the items in the order they were saved, followed from the first use of
\* the page for as long as no delete or clear has run (and for MaxSaves saves)
EmptyLog == [pure |-> TRUE, items |-> << >>]

LostLog == [pure |-> FALSE, items |-> << >>]

NoCall == [done |-> FALSE, voltage |-> NaN, current |-> NaN,
           powerFactor |-> NaN, efficiency |-> NaN,
           out |-> [isValid |-> FALSE, errors |-> << >>]]

\* localStorage.getItem('theme') || 'light'
savedTheme(store) ==
    LET t == getItem(store, "theme")
    IN  IF Present(t) /\ t[1] # "" THEN t[1] ELSE "light"

updateThemeIcon(theme) == IF theme = "dark" THEN "sun" ELSE "moon"

EmptyStorage == [theme |-> << >>, calculationHistory |-> << >>]

\* the page after initializeApp, on first use
Init ==
    /\ fields = InitialFields
    /\ resultsDiv = welcome
    /\ localStorage = EmptyStorage
    /\ historyList = displayHistory(EmptyStorage)
    /\ dataTheme = savedTheme(EmptyStorage)
    /\ themeIcon = updateThemeIcon(savedTheme(EmptyStorage))
    /\ clock = 0
    /\ op = Ran("initializeApp", TRUE, FALSE)
    /\ log = EmptyLog
    /\ call = NoCall

\* the page is loaded again: initializeApp runs on the stored state.  When
\* displayHistory throws, the statements after it are not reached and the
\* welcome message is not written.  loadHistoryItem and deleteHistoryItem are
\* function declarations of a script, properties of window whether or not the
\* two assignments to window are reached
initializeApp ==
    /\ fields' = InitialFields
    /\ dataTheme' = savedTheme(localStorage)
    /\ themeIcon' = updateThemeIcon(savedTheme(localStorage))
    /\ historyList' = historyListAfter(localStorage, blankHistory)
    /\ resultsDiv' = IF displayHistoryThrows(localStorage) THEN blankResults
                     ELSE welcome
    /\ op' = Ran("initializeApp", ~displayHistoryThrows(localStorage), FALSE)
    /\ UNCHANGED <<localStorage, clock, log, call>>

\* time passes
Tick ==
    /\ clock < MaxClock
    /\ clock' = clock + 1
    /\ UNCHANGED <<fields, resultsDiv, historyList, dataTheme, themeIcon,
                   localStorage, op, log, call>>

\* the user edits element el: its input/change listener is updateCalculations
InputEvent(texts) ==
    \E el \in ElementIds : \E text \in texts[el] :
        /\ fields' = [fields EXCEPT ![el] = text]
        /\ resultsDiv' = PanelOfFields[fields']
        /\ op' = Ran("updateCalculations", resultsDiv'.kind = "results", FALSE)
        /\ UNCHANGED <<historyList, dataTheme, themeIcon, localStorage, clock,
                       log, call>>

\* a faulty variant of toggleTheme: the new theme is not stored
toggleThemeUnsaved ==
    LET currentTheme == dataTheme
        newTheme == IF currentTheme = "dark" THEN "light" ELSE "dark"
    IN  /\ dataTheme' = newTheme
        /\ themeIcon' = updateThemeIcon(newTheme)
        /\ op' = Ran("toggleTheme", TRUE, FALSE)
        /\ UNCHANGED <<fields, resultsDiv, historyList, localStorage, clock,
                       log, call>>

toggleTheme ==
    LET currentTheme == dataTheme
        newTheme == IF currentTheme = "dark" THEN "light" ELSE "dark"
    IN  /\ dataTheme' = newTheme
        /\ localStorage' = setItem(localStorage, "theme", newTheme)
        /\ themeIcon' = updateThemeIcon(newTheme)
        /\ op' = Ran("toggleTheme", TRUE, FALSE)
        /\ UNCHANGED <<fields, resultsDiv, historyList, clock, log, call>>

\* a faulty variant of unshiftAndCap: the list is never cut
unshiftOnly(history, item) == unshift(history, item)

\* history.unshift(item); if (history.length > 10) history.splice(10)
unshiftAndCap(history, item) ==
    LET added == unshift(history, item)
    IN  IF Len(added) > HistoryLimit THEN splice(added, HistoryLimit) ELSE added

\* the storage saveCalculation leaves when it has built item
saveCalculationStore(store, item) ==
    setItem(store, "calculationHistory",
            JSONstringify(unshiftAndCap(getHistoryOf(store), item)))

\* the clock readings of the second Date.now() of a save begun at reading t
SecondReading(t) == {u \in {t, t + 1} : u <= MaxClock}

\* the rest of saveCalculation once item is built, the clock then reading t2
saveItem(item, t2) ==
    /\ localStorage' = saveCalculationStore(localStorage, item)
    /\ historyList' = historyListAfter(localStorage', historyList)
    /\ clock' = t2
    /\ op' = Ran("saveCalculation", TRUE, Len(getHistory) = HistoryLimit)
    /\ log' = IF log.pure /\ Len(log.items) < MaxSaves
              THEN [log EXCEPT !.items = Append(@, item)]
              ELSE LostLog
    /\ UNCHANGED <<fields, resultsDiv, dataTheme, themeIcon, call>>

\* saveCalculation builds and stores the item of the calculation calc
saveAccepted(calc) ==
    \E t2 \in SecondReading(clock) :
        saveItem(historyItem(calc.inputs, calc.result, clock, t2), t2)

\* saveCalculation raises the alert and returns
saveRejected ==
    /\ op' = Ran("saveCalculation", FALSE, FALSE)
    /\ UNCHANGED <<fields, resultsDiv, historyList, dataTheme, themeIcon,
                   localStorage, clock, log, call>>

\* a faulty variant of saveCalculation: the inputs are stored unvalidated
saveCalculationUnchecked == saveAccepted(CalculationOfFields[fields])

\* saveCalculation for the calculation calc, given what validateInputs said of
\* its inputs
saveValidated(calc, validation) ==
    IF ~validation.isValid THEN saveRejected ELSE saveAccepted(calc)

saveCalculated(calc) == saveValidated(calc, validateInputsOf(calc.inputs))

saveCalculation == saveCalculated(CalculationOfFields[fields])

\* a faulty variant of clearHistoryStore: the answer is not looked at
clearAlways(store, confirm) == removeItem(store, "calculationHistory")

\* the storage clearHistory leaves when the user answers confirm
clearHistoryStore(store, confirm) ==
    IF confirm THEN removeItem(store, "calculationHistory") ELSE store

clearHistory ==
    \E confirm \in BOOLEAN :
        /\ localStorage' = clearHistoryStore(localStorage, confirm)
        /\ historyList' = IF confirm THEN displayHistory(localStorage')
                          ELSE historyList
        /\ log' = IF confirm THEN LostLog ELSE log
        /\ op' = Ran("clearHistory", confirm, confirm /\ Len(getHistory) > 0)
        /\ UNCHANGED <<fields, resultsDiv, dataTheme, themeIcon, clock, call>>

\* a faulty variant of deleteHistoryItemStore: the first entry is removed,
\* whatever its id
shiftStore(store, id) ==
    setItem(store, "calculationHistory",
            JSONstringify(IF getHistoryOf(store) = << >> THEN << >>
                          ELSE Tail(getHistoryOf(store))))

\* the storage deleteHistoryItem(id) leaves
deleteHistoryItemStore(store, id) ==
    setItem(store, "calculationHistory",
            JSONstringify(filter(getHistoryOf(store), id)))

deleteHistoryItem(id) ==
    /\ localStorage' = deleteHistoryItemStore(localStorage, id)
    /\ historyList' = historyListAfter(localStorage', historyList)
    /\ op' = Ran("deleteHistoryItem", TRUE,
                 Len(getHistoryOf(localStorage')) < Len(getHistory))
    /\ log' = LostLog
    /\ UNCHANGED <<fields, resultsDiv, dataTheme, themeIcon, clock, call>>

\* the stored inputs in the order loadHistoryItem writes them to the elements
LoadOrder ==
    << <<"voltage", "voltage">>, <<"current", "current">>, <<"phase", "phase">>,
       <<"powerFactor", "powerFactor">>, <<"efficiency", "efficiency">>,
       <<"electricityRate", "rate">> >>

\* the first n assignments of loadHistoryItem run without a TypeError: none of
\* them applies toString to a stored null
LoadReaches(item, n) == \A j \in 1..n : item[LoadOrder[j][2]] # null

\* the found item, if any, makes loadHistoryItem throw before it reaches
\* updateCalculations
LoadThrows(item) == item # << >> /\ ~LoadReaches(item[1], Len(LoadOrder))

\* loadHistoryItem(id) throws before it reaches updateCalculations
loadHistoryItemThrows(store, id) == LoadThrows(find(getHistoryOf(store), id))

\* the place of element el in the order of the assignments
LoadPlace(el) == CHOOSE j \in 1..Len(LoadOrder) : LoadOrder[j][1] = el

\* the value of element el after the assignments from item, the n-th of which
\* is to el: item.x.toString() when it is reached
LoadedText(item, n, was) ==
    IF LoadReaches(item, n) THEN TextOfNumber[item[LoadOrder[n][2]]] ELSE was

\* the element values after loadHistoryItem has found item, or none
LoadedFields(item, f) ==
    IF item # << >>
    THEN [el \in ElementIds |-> LoadedText(item[1], LoadPlace(el), f[el])]
    ELSE f

\* the element values loadHistoryItem(id) leaves: those of the first entry with
\* that id, as far as the assignments run, or f when there is none
loadHistoryItemFields(store, id, f) ==
    LoadedFields(find(getHistoryOf(store), id), f)

\* the results panel loadHistoryItem(id) leaves when it showed shown and the
\* elements now hold loaded: the recalculation runs when the entry is found
\* and all the fields were written
loadHistoryItemResults(store, id, loaded, shown) ==
    IF find(getHistoryOf(store), id) # << >> /\ ~loadHistoryItemThrows(store, id)
    THEN PanelOfFields[loaded]
    ELSE shown

loadHistoryItem(id) ==
    /\ fields' = loadHistoryItemFields(localStorage, id, fields)
    /\ resultsDiv' = loadHistoryItemResults(localStorage, id, fields', resultsDiv)
    /\ op' = Ran("loadHistoryItem",
                 find(getHistory, id) # << >>
                     /\ ~loadHistoryItemThrows(localStorage, id),
                 FALSE)
    /\ UNCHANGED <<historyList, dataTheme, themeIcon, localStorage, clock,
                   log, call>>

\* the calculator and its history
NextHistory ==
    \/ Tick
    \/ InputEvent(FieldTexts)
    \/ saveCalculation
    \/ clearHistory
    \/ \E id \in IdArgs : deleteHistoryItem(id)
    \/ \E id \in IdArgs : loadHistoryItem(id)

SpecHistory == Init /\ [][NextHistory]_vars

\* the calculator, its history and the theme toggle
NextPage ==
    \/ NextHistory
    \/ toggleTheme

SpecPage == Init /\ [][NextPage]_vars

\* the whole page, reloads included
Next ==
    \/ NextPage
    \/ initializeApp

Spec == Init /\ [][Next]_vars

-----------------------------------------------------------------------------
(* validateInputs applied directly *)

VoltageSamples ==
    {NaN, null, Num(0 - 5), Num(0), Milli(1), Num(480), Num(1000000),
     Milli(1000000001), Num(1000001), Inf(FALSE)}

CurrentSamples ==
    {NaN, null, Num(0 - 5), Num(0), Milli(1), Num(100), Num(100000),
     Milli(100000001), Num(100001), Inf(TRUE)}

PowerFactorSamples ==
    {NaN, null, Inf(TRUE), Num(0), Milli(499), Milli(500), Milli(900), Num(1),
     Milli(1001)}

EfficiencySamples ==
    {NaN, null, Milli(0 - 1), Num(0), Num(90), Num(100), Milli(100001),
     Inf(FALSE)}

InitValidate ==
    /\ fields = InitialFields
    /\ resultsDiv = welcome
    /\ localStorage = EmptyStorage
    /\ historyList = displayHistory(EmptyStorage)
    /\ dataTheme = savedTheme(EmptyStorage)
    /\ themeIcon = updateThemeIcon(savedTheme(EmptyStorage))
    /\ clock = 0
    /\ op = Ran("initializeApp", TRUE, FALSE)
    /\ log = EmptyLog
    /\ \E v \in VoltageSamples, c \in CurrentSamples,
          pf \in PowerFactorSamples, e \in EfficiencySamples :
            call = [NoCall EXCEPT !.voltage = v, !.current = c,
                                  !.powerFactor = pf, !.efficiency = e]

Validate ==
    /\ ~call.done
    /\ call' = [call EXCEPT !.done = TRUE,
                  !.out = validateInputs(call.voltage, call.current,
                                         call.powerFactor, call.efficiency)]
    /\ UNCHANGED <<fields, resultsDiv, historyList, dataTheme, themeIcon,
                   localStorage, clock, op, log>>

NextValidate == Validate

SpecValidate == InitValidate /\ [][NextValidate]_vars

-----------------------------------------------------------------------------
(* Properties of the history *)

\* C1: from absent storage, after any sequence of saveCalculation,
\* deleteHistoryItem, clearHistory, loadHistoryItem and updateCalculations the
\* persisted calculationHistory list has at most 10 entries
HistoryAtMostTen == Len(getHistory) <= 10

\* a save has just run on a full list and cut it back to 10 entries
HistoryAtMostTenWitness ==
    /\ op = Ran("saveCalculation", TRUE, TRUE)
    /\ Len(getHistory) = 10

\* an item as it is read back from localStorage: JSON keeps its finite numbers
\* and writes a NaN or an Infinity as null
Persisted(item) == JSONparse(JSONstringify(<<item>>))[1]

\* the item saveCalculation builds from the element values f
ItemOfFields(f, t1, t2) ==
    historyItem(CalculationOfFields[f].inputs, CalculationOfFields[f].result,
                t1, t2)

\* the min(Len(items), 10) last items, the last one first
MostRecentFirst(items) ==
    LET n == IF Len(items) < 10 THEN Len(items) ELSE 10
    IN  [i \in 1..n |-> items[Len(items) + 1 - i]]

\* C2: after n successful saves from an empty history, with no delete or clear
\* in between, the list holds exactly the min(n, 10) most recently saved items,
\* most recent first; 11 saves leave the 10 most recent, the first one is gone
SavesKeepTenMostRecent ==
    log.pure
    => getHistory = MostRecentFirst([i \in 1..Len(log.items) |->
                                       Persisted(log.items[i])])

\* 11 saves and nothing else have run, and the first saved item is in the list
\* no more
SavesKeepTenMostRecentWitness ==
    /\ log.pure
    /\ Len(log.items) = 11
    /\ Len(getHistory) = 10
    /\ \A i \in 1..Len(getHistory) : getHistory[i] # log.items[1]

\* C3: a successful saveCalculation on a list L puts the new item at index 0,
\* followed by the entries of L in their order; the length grows by one when L
\* had fewer than 10 entries, and from 10 entries only the last one is dropped
SavePrepends ==
    LET L == getHistory
    IN  validateInputsOf(getInputValues(fields)).isValid
        => \A t2 \in SecondReading(clock) :
             LET item  == ItemOfFields(fields, clock, t2)
                 after == getHistoryOf(saveCalculationStore(localStorage, item))
             IN  /\ Len(after) = IF Len(L) < 10 THEN Len(L) + 1 ELSE 10
                 /\ after[1] = Persisted(item)
                 /\ \A i \in 2..Len(after) : after[i] = L[i - 1]

\* a save has just dropped the oldest entry of a full list whose entries were
\* not all alike: the new head has another id than the entry now last
SavePrependsWitness ==
    /\ op = Ran("saveCalculation", TRUE, TRUE)
    /\ Len(getHistory) = 10
    /\ getHistory[1].id = toString(DateNow(clock))
    /\ getHistory[10].id # getHistory[1].id

RECURSIVE IsSubsequence(_, _)
\* the entries of a are entries of b, unchanged and in the same order
IsSubsequence(a, b) ==
    IF a = << >> THEN TRUE
    ELSE IF b = << >> THEN FALSE
    ELSE IF Head(a) = Head(b) THEN IsSubsequence(Tail(a), Tail(b))
    ELSE IsSubsequence(a, Tail(b))

\* a step keeps the entries it does not remove as they are, and adds at most
\* the entry head at the front
EntriesKept(head) ==
    \/ IsSubsequence(getHistory', getHistory)
    \/ /\ getHistory' # << >>
       /\ Head(getHistory') = head
       /\ IsSubsequence(Tail(getHistory'), getHistory)

\* a step changes the list only in a save, a delete or a clear, and entries
\* leave it only by truncation, delete or clear
EntriesLeaveByRule ==
    /\ getHistory' # getHistory
         => op'.name \in {"saveCalculation", "deleteHistoryItem", "clearHistory"}
    /\ ~IsSubsequence(getHistory, getHistory')
         => \/ op' = Ran("saveCalculation", TRUE, TRUE)
            \/ op' = Ran("deleteHistoryItem", TRUE, TRUE)
            \/ op' = Ran("clearHistory", TRUE, TRUE)

\* C4: no history entry is mutated after creation: every entry of the persisted
\* list is field for field the item built by the saveCalculation that created
\* it, whatever saves, deletes, loads, recalculations or theme toggles followed;
\* entries leave the list only by delete, clear or truncation
EntriesAsBuilt ==
    [][/\ EntriesKept(ItemOfFields(fields, clock, clock'))
       /\ EntriesLeaveByRule]_vars

\* what the entries keep instead: every entry is the item its saveCalculation
\* built as JSON.stringify wrote it, an infinite rate or cost being null from
\* the save on, and no later step changes it
EntriesAsStored ==
    [][/\ EntriesKept(Persisted(ItemOfFields(fields, clock, clock')))
       /\ EntriesLeaveByRule]_vars

\* no entry of the history has this id
Unknown(id) == \A i \in 1..Len(getHistory) : getHistory[i].id # id

\* C5: deleteHistoryItem(id) with an id that matches no entry leaves the list
\* returned by getHistory unchanged: same entries, same order
DeleteUnknownIdKeepsList ==
    \A id \in IdArgs :
        Unknown(id)
        => getHistoryOf(deleteHistoryItemStore(localStorage, id)) = getHistory

\* a delete has just run on a list that is not empty and removed nothing
DeleteUnknownIdKeepsListWitness ==
    /\ op = Ran("deleteHistoryItem", TRUE, FALSE)
    /\ Len(getHistory) > 0
    /\ \E id \in IdArgs : Unknown(id)

\* C6: deleteHistoryItem(id) removes from the persisted list every entry whose
\* id equals id and nothing else: the entries with another id remain, in their
\* previous relative order
DeleteRemovesExactlyMatching ==
    \A id \in IdArgs :
        LET Keep(e) == e.id # id
        IN  getHistoryOf(deleteHistoryItemStore(localStorage, id))
                = SelectSeq(getHistory, Keep)

\* a delete has just removed the entries of one id from a list that held two
\* ids: what is left, two entries or more, has the other id
DeleteRemovesExactlyMatchingWitness ==
    /\ op = Ran("deleteHistoryItem", TRUE, TRUE)
    /\ Len(getHistory) >= 2
    /\ \E id \in IdArgs : Unknown(id)
    /\ \A i \in 1..Len(getHistory) : getHistory[i].id = getHistory[1].id

\* C7: clearHistory removes the persisted history key only when the user
\* confirms: after a confirmed clear getHistory returns the empty list, whatever
\* the list was; after a declined confirmation the persisted history is unchanged
ClearOnlyOnConfirm ==
    /\ ~Present(getItem(clearHistoryStore(localStorage, TRUE), "calculationHistory"))
    /\ getHistoryOf(clearHistoryStore(localStorage, TRUE)) = << >>
    /\ clearHistoryStore(localStorage, FALSE) = localStorage
    /\ op.name = "clearHistory" /\ op.ok
         => ~Present(getItem(localStorage, "calculationHistory")) /\ getHistory = << >>
    /\ op = Ran("clearHistory", FALSE, FALSE) /\ log.pure
         => getHistory = MostRecentFirst(log.items)

\* a confirmed clear has just emptied a list that held entries
ClearOnlyOnConfirmWitness ==
    /\ op = Ran("clearHistory", TRUE, TRUE)
    /\ getHistory = << >>

\* C8: the history operations other than save are idempotent: from any
\* reachable state deleteHistoryItem(id) twice leaves the same list as once, a
\* confirmed clearHistory twice the same list as once, and getHistory and
\* loadHistoryItem leave the persisted list unchanged however often they run
HistoryOpsIdempotent ==
    /\ [](/\ \A id \in IdArgs :
               getHistoryOf(deleteHistoryItemStore(
                                deleteHistoryItemStore(localStorage, id), id))
                   = getHistoryOf(deleteHistoryItemStore(localStorage, id))
          /\ clearHistoryStore(clearHistoryStore(localStorage, TRUE), TRUE)
                 = clearHistoryStore(localStorage, TRUE))
    /\ [][op'.name = "loadHistoryItem" /\ op' # op
            => localStorage' = localStorage]_vars

\* a delete has just removed entries and left a list in which two entries
\* share an id, which the next delete of that id removes together
HistoryOpsIdempotentWitness ==
    /\ op = Ran("deleteHistoryItem", TRUE, TRUE)
    /\ \E i, j \in 1..Len(getHistory) : i # j /\ getHistory[i].id = getHistory[j].id

-----------------------------------------------------------------------------
(* Properties of validateInputs *)

\* the number of messages of validateInputs about the field of this description
ErrorsAbout(description) ==
    Cardinality({i \in 1..Len(call.out.errors) : call.out.errors[i][1] = description})

\* a value of the type number other than NaN
IsNumber(x) == IsFinite(x) \/ IsInf(x)

\* what the rule of a required field says of x: 1 error for NaN, for a number
\* <= 0 or above max, none for a number in 0 < x <= max; any count for null
AsRequired(count, x, max) ==
    /\ isNaN(x) \/ (IsNumber(x) /\ (~Lt(Num(0), x) \/ Lt(Num(max), x)))
           => count = 1
    /\ IsNumber(x) /\ Lt(Num(0), x) /\ ~Lt(Num(max), x) => count = 0

\* C9: for each required field (voltage with maximum 1,000,000, current with
\* maximum 100,000) validateInputs reports exactly one error for the field when
\* the value is not a number, is <= 0 or exceeds the maximum, and none when
\* 0 < value <= maximum: the maximum itself is accepted
RequiredFieldRule ==
    call.done
    => /\ AsRequired(ErrorsAbout("Voltage"), call.voltage, 1000000)
       /\ AsRequired(ErrorsAbout("Current"), call.current, 100000)

\* validateInputs has taken a voltage at its maximum and refused a current
\* just above its own
RequiredFieldRuleWitness ==
    /\ call.done
    /\ call.voltage = Num(1000000) /\ ErrorsAbout("Voltage") = 0
    /\ call.current = Milli(100000001) /\ ErrorsAbout("Current") = 1

\* the fields, by description, in the order of the checks
CheckOrder == <<"Voltage", "Current", "Power Factor", "Efficiency">>

\* whether the field of this description fails its own rule in the call
Fails(description) ==
    LET required(x, max) == ~IsNumber(x) \/ ~Lt(Num(0), x) \/ Lt(Num(max), x)
        optional(x, min, max) == IsNumber(x) /\ (Lt(x, min) \/ Lt(max, x))
    IN  CASE description = "Voltage" -> required(call.voltage, 1000000)
          [] description = "Current" -> required(call.current, 100000)
          [] description = "Power Factor" ->
                 optional(call.powerFactor, Milli(500), Num(1))
          [] description = "Efficiency" ->
                 optional(call.efficiency, Num(0), Num(100))

\* C10: validateInputs checks the four fields independently and accumulates the
\* failures: one message per failing field in the order voltage, current,
\* powerFactor, efficiency, an earlier failure never suppressing a later check,
\* and isValid is true exactly when the error list is empty
ErrorsAccumulated ==
    call.done
    => /\ [i \in 1..Len(call.out.errors) |-> call.out.errors[i][1]]
              = SelectSeq(CheckOrder, Fails)
       /\ call.out.isValid = (call.out.errors = << >>)

\* validateInputs has reported all four fields in one call
ErrorsAccumulatedWitness ==
    /\ call.done
    /\ Len(call.out.errors) = 4
    /\ ~call.out.isValid

\* what the rule of an optional field says of x: 1 error for a number below min
\* or above max, none for any other value
AsOptional(count, x, min, max) ==
    count = IF IsNumber(x) /\ (Lt(x, min) \/ Lt(max, x)) THEN 1 ELSE 0

\* C11: for each optional field (powerFactor with range [0.5, 1.0], efficiency
\* with range [0, 100]) validateInputs reports an error for the field if and
\* only if the value is a number outside the range; a value that is not a
\* number and both bounds of the range are accepted
OptionalFieldRule ==
    call.done
    => /\ AsOptional(ErrorsAbout("Power Factor"), call.powerFactor,
                     Milli(500), Num(1))
       /\ AsOptional(ErrorsAbout("Efficiency"), call.efficiency,
                     Num(0), Num(100))

\* validateInputs has taken a power factor at the lower bound of its range and
\* refused an efficiency just above the upper bound of its own
OptionalFieldRuleWitness ==
    /\ call.done
    /\ call.powerFactor = Milli(500) /\ ErrorsAbout("Power Factor") = 0
    /\ call.efficiency = Milli(100001) /\ ErrorsAbout("Efficiency") = 1

-----------------------------------------------------------------------------
(* calculatePower applied directly *)

\* arguments as validateInputs lets them through: whole volts, amperes, the two
\* phases of the select element, a power factor in [0.5, 1], an efficiency in
\* (0, 100] and a rate
VoltageInputs == {Num(120), Num(230), Num(480)}

CurrentInputs == {Milli(500), Num(10), Num(100)}

PhaseInputs == {Num(1), Num(3)}

PowerFactorInputs == {Milli(500), Milli(900), Num(1)}

EfficiencyInputs == {Num(50), Num(90), Num(100)}

RateInputs == {Milli(120), Milli(150), Num(1)}

InitCalculate ==
    /\ fields = InitialFields
    /\ resultsDiv = welcome
    /\ localStorage = EmptyStorage
    /\ historyList = displayHistory(EmptyStorage)
    /\ dataTheme = savedTheme(EmptyStorage)
    /\ themeIcon = updateThemeIcon(savedTheme(EmptyStorage))
    /\ clock = 0
    /\ op = Ran("initializeApp", TRUE, FALSE)
    /\ log = EmptyLog
    /\ \E v \in VoltageInputs, c \in CurrentInputs, ph \in PhaseInputs,
          pf \in PowerFactorInputs, e \in EfficiencyInputs, r \in RateInputs :
            call = [done |-> FALSE, voltage |-> v, current |-> c, phase |-> ph,
                    powerFactor |-> pf, efficiency |-> e, rate |-> r,
                    out |-> << >>]

Calculate ==
    /\ ~call.done
    /\ call' = [call EXCEPT !.done = TRUE,
                  !.out = calculatePower(call.voltage, call.current, call.phase,
                                         call.powerFactor, call.efficiency,
                                         call.rate)]
    /\ UNCHANGED <<fields, resultsDiv, historyList, dataTheme, themeIcon,
                   localStorage, clock, op, log>>

NextCalculate == Calculate

SpecCalculate == InitCalculate /\ [][NextCalculate]_vars

-----------------------------------------------------------------------------
(* Properties of calculatePower *)

\* |x|
Magnitude(x) == [x EXCEPT !.neg = FALSE]

\* 2^-50, four times the distance from 1 to the next number
Tolerance == Finite(FALSE, <<1>>, 0 - 50)

\* the finite numbers a and b are the same but for the rounding of a few
\* operations
Near(a, b) ==
    /\ IsFinite(a) /\ IsFinite(b)
    /\ Le(Magnitude(Sub(a, b)), Mul(Magnitude(a), Tolerance))

\* V * I / 1000
VoltAmperes == Div(Mul(call.voltage, call.current), Num(1000))

\* sqrt(3) * V * I / 1000
Sqrt3VoltAmperes ==
    Div(Mul(Mul(MathSqrt(Num(3)), call.voltage), call.current), Num(1000))

\* C12: calculatePower returns kva = V*I/1000 when phase is 1 and
\* sqrt(3)*V*I/1000 otherwise, kw = kva * powerFactor and adjustedPower =
\* kw * efficiency/100; V=480, I=100, phase=3, pf=0.9, eff=90 gives kva of
\* about 83.14, kw of about 74.82 and adjustedPower of about 67.34
PowerFormulas ==
    call.done
    => /\ call.out.kva = IF call.phase = Num(1) THEN VoltAmperes
                         ELSE Sqrt3VoltAmperes
       /\ Near(Mul(call.out.kva, call.out.kva),
               IF call.phase = Num(1) THEN Mul(VoltAmperes, VoltAmperes)
               ELSE Mul(Num(3), Mul(VoltAmperes, VoltAmperes)))
       /\ call.out.kw = Mul(call.out.kva, call.powerFactor)
       /\ Near(call.out.adjustedPower,
               Div(Mul(call.out.kw, call.efficiency), Num(100)))
       /\ (/\ call.voltage = Num(480) /\ call.current = Num(100)
           /\ call.phase = Num(3) /\ call.powerFactor = Milli(900)
           /\ call.efficiency = Num(90))
          => /\ toFixed(call.out.kva, 2) = <<"8", "3", ".", "1", "4">>
             /\ toFixed(call.out.kw, 2) = <<"7", "4", ".", "8", "2">>
             /\ toFixed(call.out.adjustedPower, 2) = <<"6", "7", ".", "3", "4">>

\* calculatePower has run on V=480, I=100, phase=3, pf=0.9, eff=90
PowerFormulasWitness ==
    /\ call.done
    /\ call.voltage = Num(480) /\ call.current = Num(100)
    /\ call.phase = Num(3) /\ call.powerFactor = Milli(900)
    /\ call.efficiency = Num(90)
    /\ Gt(call.out.kva, call.out.kw) /\ Gt(call.out.kw, call.out.adjustedPower)

\* C13: in every result of calculatePower costPerHour = adjustedPower * rate,
\* costPerDay = costPerHour * 24, costPerMonth = costPerDay * 30 and
\* costPerYear = costPerDay * 365
CostFormulas ==
    call.done
    => /\ call.out.costPerHour = Mul(call.out.adjustedPower, call.rate)
       /\ call.out.costPerDay = Mul(call.out.costPerHour, Num(24))
       /\ call.out.costPerMonth = Mul(call.out.costPerDay, Num(30))
       /\ call.out.costPerYear = Mul(call.out.costPerDay, Num(365))

\* calculatePower has run with a rate of 1 on a load that costs money: the hour
\* costs the adjusted power, the year more than the month
CostFormulasWitness ==
    /\ call.done
    /\ call.rate = Num(1)
    /\ call.out.costPerHour = call.out.adjustedPower
    /\ Gt(call.out.costPerHour, Num(0))
    /\ Gt(call.out.costPerYear, call.out.costPerMonth)

\* the call of the example: V=120, I=10, phase=1, pf=1.0, eff=100, rate=0.12
UnityExample ==
    /\ call.voltage = Num(120) /\ call.current = Num(10) /\ call.phase = Num(1)
    /\ call.powerFactor = Num(1) /\ call.efficiency = Num(100)
    /\ call.rate = Milli(120)

\* C14: for every validated input with powerFactor in [0.5, 1.0] the kvar of
\* calculatePower is never negative, and it is exactly 0 when powerFactor is
\* 1.0, where kw equals kva, as in V=120, I=10, phase=1, pf=1.0, eff=100,
\* rate=0.12 (1.2 kVA, 1.2 kW, 0 kVAR, costPerHour 0.144)
ReactivePowerNotNegative ==
    call.done
    => /\ IsFinite(call.out.kvar) /\ ~call.out.kvar.neg
       /\ call.powerFactor = Num(1)
            => call.out.kw = call.out.kva /\ call.out.kvar = Num(0)
       /\ UnityExample
            => /\ call.out.kva = Milli(1200) /\ call.out.kw = Milli(1200)
               /\ call.out.kvar = Num(0)
               /\ call.out.adjustedPower = Milli(1200)
               /\ call.out.costPerHour = Milli(144)

\* calculatePower has run on the example and found no reactive power
ReactivePowerNotNegativeWitness ==
    /\ call.done
    /\ UnityExample
    /\ call.out.kvar = Num(0)

-----------------------------------------------------------------------------
(* The input elements and the first saves of a visit *)

\* the most entries the history holds while the input elements are followed
MaxInputSaves == 1

\* the save button is clicked while the history is short
SaveFirst == Len(getHistory) < MaxInputSaves /\ saveCalculation

NextInputs ==
    \/ InputEvent(InputTexts)
    \/ SaveFirst

SpecInputs == Init /\ [][NextInputs]_vars

-----------------------------------------------------------------------------
(* Properties of the input elements *)

\* the value getInputValues reads for an optional element: the documented
\* default while the element is empty
OrDocumented(text, d, read) == IF text = << >> THEN d ELSE read

\* the input values with the documented default for every empty optional element
DocumentedInputs ==
    LET in == getInputValues(fields)
    IN  [in EXCEPT
           !.powerFactor = OrDocumented(fields.powerFactor, Milli(900), @),
           !.efficiency  = OrDocumented(fields.efficiency, Num(100), @),
           !.rate        = OrDocumented(fields.electricityRate, Milli(120), @)]

\* validateInputs has no message about the field of this description
NoErrorAbout(description) ==
    LET errors == validateInputsOf(getInputValues(fields)).errors
    IN  \A i \in 1..Len(errors) : errors[i][1] # description

\* C15: when an optional field is left empty, the recalculation and the save
\* use the documented default instead of reporting an error: powerFactor 0.9,
\* efficiency 100, rate 0.12; an empty optional field alone never makes
\* validation fail
EmptyOptionalUsesDefault ==
    /\ getInputValues(fields) = DocumentedInputs
    /\ fields.powerFactor = << >> => NoErrorAbout("Power Factor")
    /\ fields.efficiency = << >> => NoErrorAbout("Efficiency")
    /\ op = Ran("updateCalculations", TRUE, FALSE)
         => resultsDiv = displayResults(calculatePowerOf(DocumentedInputs))
    /\ op = Ran("saveCalculation", TRUE, FALSE)
         => \E t1, t2 \in 0..MaxClock :
                Head(getHistory) = historyItem(DocumentedInputs,
                                               calculatePowerOf(DocumentedInputs),
                                               t1, t2)

\* a save has stored the three defaults for three empty optional elements
EmptyOptionalUsesDefaultWitness ==
    /\ op = Ran("saveCalculation", TRUE, FALSE)
    /\ fields.powerFactor = << >> /\ fields.efficiency = << >>
    /\ fields.electricityRate = << >>
    /\ fields.phase = <<"3">>
    /\ getHistory[1].powerFactor = Milli(900)
    /\ getHistory[1].efficiency = Num(100)
    /\ getHistory[1].rate = Milli(120)

\* the text of an optional element, an entered 0 taken for an empty element
Blank(text) == IF text = <<"0">> THEN << >> ELSE text

\* the element values with every optional 0 taken for an empty element
BlankZeros ==
    [fields EXCEPT !.powerFactor = Blank(@), !.efficiency = Blank(@),
                   !.electricityRate = Blank(@)]

\* C16: an entered 0 in an optional field is indistinguishable from an absent
\* value: a recalculation or save with rate 0 gives the same result and the
\* same stored item as with the rate field empty (rate 0.12); likewise
\* efficiency 0 acts as 100 and powerFactor 0 as 0.9, with no validation error
ZeroActsAsEmpty ==
    /\ getInputValues(fields) = getInputValues(BlankZeros)
    /\ fields.electricityRate = <<"0">> => getInputValues(fields).rate = Milli(120)
    /\ fields.efficiency = <<"0">> => getInputValues(fields).efficiency = Num(100)
    /\ fields.powerFactor = <<"0">> => getInputValues(fields).powerFactor = Milli(900)
    /\ fields.powerFactor = <<"0">> => NoErrorAbout("Power Factor")
    /\ fields.efficiency = <<"0">> => NoErrorAbout("Efficiency")
    /\ op.name = "updateCalculations" => resultsDiv = updateCalculations(BlankZeros)
    /\ op = Ran("saveCalculation", TRUE, FALSE)
         => \E t1, t2 \in 0..MaxClock :
                Head(getHistory) = ItemOfFields(BlankZeros, t1, t2)

\* a save has stored the rate 0.12, the efficiency 100 and the power factor 0.9
\* for three elements that hold 0
ZeroActsAsEmptyWitness ==
    /\ op = Ran("saveCalculation", TRUE, FALSE)
    /\ fields.powerFactor = <<"0">> /\ fields.efficiency = <<"0">>
    /\ fields.electricityRate = <<"0">>
    /\ getHistory[1].powerFactor = Milli(900)
    /\ getHistory[1].efficiency = Num(100)
    /\ getHistory[1].rate = Milli(120)

\* the Quick Example of the README: three phases, 480 V, 100 A, efficiency 90,
\* the power factor and the rate left empty, and the results on display
QuickExample ==
    /\ fields.voltage = <<"4", "8", "0">> /\ fields.current = <<"1", "0", "0">>
    /\ fields.phase = <<"3">> /\ fields.efficiency = <<"9", "0">>
    /\ fields.powerFactor = << >> /\ fields.electricityRate = << >>
    /\ resultsDiv.kind = "results"

\* the displayed text shows this figure, which has one decimal
Shows(text, figure) == SubSeq(text, 1, Len(figure)) = figure

\* C17: for a three-phase load of 480 V and 100 A with efficiency 90% and the
\* other fields left at their defaults, the dashboard shows Real Power 83.1 kW,
\* Apparent Power 83.1 kVA (real power uses the same formula as apparent power)
\* and Adjusted Power 74.8 kW
QuickExampleFigures ==
    QuickExample
    => /\ Shows(resultsDiv.kw, <<"8", "3", ".", "1">>)
       /\ Shows(resultsDiv.kva, <<"8", "3", ".", "1">>)
       /\ Shows(resultsDiv.adjustedPower, <<"7", "4", ".", "8">>)

-----------------------------------------------------------------------------
(* The theme, across reloads of the page *)

NextTheme ==
    \/ toggleTheme
    \/ initializeApp
    \/ InputEvent(InputTexts)

SpecTheme == Init /\ [][NextTheme]_vars

\* the other theme: light for dark, dark for anything else
Toggled(theme) == IF theme = "dark" THEN "light" ELSE "dark"

\* C18: the theme is a two-state toggle: every value written under the key
\* theme is light or dark; toggleTheme sets the theme to light when the current
\* one is dark and to dark otherwise, leaves the persisted value equal to the
\* data-theme attribute, and two toggles in a row from light or dark restore
\* the original theme
ThemeIsTwoStateToggle ==
    /\ [](/\ dataTheme \in {"light", "dark"}
          /\ localStorage.theme \in {<< >>, <<"light">>, <<"dark">>}
          /\ op.name = "toggleTheme" => localStorage.theme = <<dataTheme>>
          /\ Toggled(Toggled(dataTheme)) = dataTheme)
    /\ [][dataTheme' # dataTheme \/ localStorage'.theme # localStorage.theme
            => /\ dataTheme' = Toggled(dataTheme)
               /\ localStorage'.theme = <<dataTheme'>>
               /\ themeIcon' = updateThemeIcon(dataTheme')]_vars

\* a toggle has just brought the page back to the light theme, which is now
\* stored
ThemeIsTwoStateToggleWitness ==
    /\ op = Ran("toggleTheme", TRUE, FALSE)
    /\ dataTheme = "light"
    /\ localStorage.theme = <<"light">>

-----------------------------------------------------------------------------
(* A rejected save *)

\* the values of the input elements pass validation
InputsPass == validateInputsOf(getInputValues(fields)).isValid

\* C19: saveCalculation with inputs that fail validation stores nothing: the
\* persisted history list is exactly what it was before the call, and no item
\* is created
RejectedSaveStoresNothing ==
    /\ [](op.name = "saveCalculation" => op.ok = InputsPass)
    /\ [][op'.name = "saveCalculation" /\ ~InputsPass
            => /\ localStorage' = localStorage
               /\ historyList' = historyList
               /\ log' = log]_vars

\* a save has just been rejected while the history holds entries
RejectedSaveStoresNothingWitness ==
    /\ op = Ran("saveCalculation", FALSE, FALSE)
    /\ ~InputsPass
    /\ Len(getHistory) > 1

-----------------------------------------------------------------------------
(* The ids of the entries *)

\* C20: each history item is deleted individually: in every reachable history
\* list the ids of the entries are pairwise distinct, so deleteHistoryItem(id)
\* of an existing id removes exactly one entry, including when two saves
\* happen at the same clock reading
IdsPairwiseDistinct ==
    \A i, j \in 1..Len(getHistory) :
        getHistory[i].id = getHistory[j].id => i = j

-----------------------------------------------------------------------------
(* The electricity rate, from the input element to the history and back *)

\* the most entries the history holds in this specification
MaxRateSaves == 2

\* a save while the history is short
SaveFew == Len(getHistory) < MaxRateSaves /\ saveCalculation

\* every listener of the page, the two window functions and the reload
NextRate ==
    \/ Tick
    \/ InputEvent(RateTexts)
    \/ toggleTheme
    \/ SaveFew
    \/ clearHistory
    \/ \E id \in IdArgs : deleteHistoryItem(id)
    \/ \E id \in IdArgs : loadHistoryItem(id)
    \/ initializeApp

SpecRate == Init /\ [][NextRate]_vars

\* x is a number inside the rule of VALIDATION_RULES.rate
RateInRule(x) ==
    /\ IsFinite(x)
    /\ Le(VALIDATION_RULES.rate.min, x)
    /\ Le(x, VALIDATION_RULES.rate.max)

\* C23: the electricity rate is held to its validation rule (min 0, max 10):
\* a rate below 0 or above 10 makes validateInputs report an error, so that no
\* result is displayed and no history item is saved with such a rate
RateHeldToRule ==
    /\ ~RateInRule(getInputValues(fields).rate)
           => ~validateInputsOf(getInputValues(fields)).isValid
    /\ op = Ran("updateCalculations", TRUE, FALSE)
           => RateInRule(getInputValues(fields).rate)
    /\ \A i \in 1..Len(getHistory) : RateInRule(getHistory[i].rate)

\* the stored inputs of an item are within the ranges validateInputs accepts
InputsInRange(item) ==
    /\ Lt(Num(0), item.voltage) /\ Le(item.voltage, Num(1000000))
    /\ Lt(Num(0), item.current) /\ Le(item.current, Num(100000))
    /\ Le(Milli(500), item.powerFactor) /\ Le(item.powerFactor, Num(1))
    /\ Le(Num(0), item.efficiency) /\ Le(item.efficiency, Num(100))

\* C21: every item in the persisted history, in every reachable state, holds
\* inputs that pass validateInputs (0 < voltage <= 1,000,000, 0 < current <=
\* 100,000, 0.5 <= powerFactor <= 1.0, 0 <= efficiency <= 100), and its result
\* field equals calculatePower applied to the item's own six stored inputs
StoredItemsConsistent ==
    \A i \in 1..Len(getHistory) :
        LET item == getHistory[i]
        IN  /\ validateInputs(item.voltage, item.current,
                              item.powerFactor, item.efficiency).isValid
            /\ InputsInRange(item)
            /\ item.result = calculatePower(item.voltage, item.current,
                                 item.phase, item.powerFactor,
                                 item.efficiency, item.rate)

\* the six inputs an item stores
StoredInputs(item) ==
    [voltage |-> item.voltage, current |-> item.current, phase |-> item.phase,
     powerFactor |-> item.powerFactor, efficiency |-> item.efficiency,
     rate |-> item.rate]

\* C22: save then load is a round trip: for an item present in the history,
\* loadHistoryItem(id) sets the six input fields so that reading them back
\* yields the item's stored voltage, current, phase, powerFactor, efficiency
\* and rate, and the recalculation it triggers shows a result equal to the
\* item's stored result; loadHistoryItem of an id that matches no entry changes
\* neither the input fields nor the results
LoadRoundTrip ==
    \A id \in IdArgs :
        LET item == find(getHistory, id)
            loaded == loadHistoryItemFields(localStorage, id, fields)
            shown == loadHistoryItemResults(localStorage, id, loaded,
                                            resultsDiv)
        IN  IF item # << >>
            THEN /\ getInputValues(loaded) = StoredInputs(item[1])
                 /\ shown = displayResults(item[1].result)
            ELSE loaded = fields /\ shown = resultsDiv

-----------------------------------------------------------------------------
(* The two keys of localStorage *)

\* C24: the two persisted keys are independent and recalculation is
\* storage-free: updateCalculations writes neither key, toggleTheme never
\* changes calculationHistory, and saveCalculation, deleteHistoryItem,
\* clearHistory and loadHistoryItem never change theme
KeysIndependent ==
    [][/\ op'.name = "updateCalculations" => localStorage' = localStorage
       /\ op'.name = "toggleTheme"
              => localStorage'.calculationHistory
                     = localStorage.calculationHistory
       /\ op'.name \in {"saveCalculation", "deleteHistoryItem",
                        "clearHistory", "loadHistoryItem"}
              => localStorage'.theme = localStorage.theme]_vars

\* a calculation has just been saved on a page whose dark theme is stored
KeysIndependentWitness ==
    /\ op.name = "saveCalculation" /\ op.ok
    /\ localStorage.theme = <<"dark">>
    /\ Len(getHistory) > 1

====
